---- MODULE Spec2Model ----
(***************************************************************************)
(* The MakeID L1 printer core: a run of JsonPrinterApp (print mode or       *)
(* render-only mode) driving PrinterService over one serial port, and the  *)
(* pure functions of the rendering pipeline applied to bounded inputs.     *)
(*                                                                         *)
(* One action is one callback of the Node event loop (port event, write    *)
(* completion, timer, signal) or one stretch of handleConnection between   *)
(* two suspension points.  The serial port, the device behind it, the      *)
(* template file and the canvas library are the environment.               *)
(***************************************************************************)
EXTENDS Integers, Sequences, FiniteSets, TLC

VARIABLES
    config,       \* PrinterConfig: packetSize, packetDelay, exitDelay
    template,     \* template.dimensions: width, height (0 = not given)
    registered,   \* performPrint ran: "open" and signal handlers installed
    port,         \* SerialPort: "opening", "open", "failed", "closed"
    pc,           \* suspension point of handleConnection
    protocol,     \* PrinterService.protocol
    imageData,    \* packed bytes returned by createImageFromJson
    imageSplits,  \* result of calculateImageSplits
    splitIndex,   \* index of the split being sent (0-based)
    message,      \* sendDataInPackets: data
    i,            \* sendDataInPackets: loop variable i
    outstanding,  \* port.write calls whose callback has not run yet
    trace,        \* what the run did, in order
    errorLog,     \* messages passed to logger.error
    closeCalls,   \* number of port.close() calls
    exit,         \* process.exit: code and who called it
    renderOnly,   \* ParsedArguments.renderOnly (--render-only)
    call,         \* a pure function of the pipeline and its arguments
    result,       \* what the function of call returned
    source,       \* the template source getTemplate() has still to settle
    lostData      \* "data" events that no listener took since the firmware
                  \* request was issued, while the request is unanswered

vars == <<config, template, registered, port, pc, protocol, imageData,
          imageSplits, splitIndex, message, i, outstanding, trace, errorLog,
          closeCalls, exit, renderOnly, call, result, source, lostData>>

------------------------------------------------------------------------------
(* Program constants *)

MAX_PRINTER_WIDTH == 255
BASE_WIDTH == 227
BASE_HEIGHT == 17
BASE_DPI == 203
DEFAULT_PACKET_SIZE == 122
DEFAULT_EXIT_DELAY == 2000
BYTE == 256

IMAGE_DIMENSIONS == [width |-> BASE_WIDTH, height |-> BASE_HEIGHT, dpi |-> BASE_DPI]

(* Bounds of the model *)

MaxWidth == 511          \* widest template override
MaxHeight == 25          \* tallest template override
MaxPackets == 40         \* most packets of one split message
MaxPortErrors == 1       \* port "error" events in one run
MaxPacketDelay == 10     \* a non-zero PACKET_DELAY
MaxLostData == 1         \* "data" events counted while no listener waits
MaxStalledWrites == 3    \* packets followed in a loop whose index does not grow

TemplateWidths == {0, 1, MAX_PRINTER_WIDTH, MAX_PRINTER_WIDTH + 1,
                   2 * MAX_PRINTER_WIDTH, MaxWidth}
TemplateHeights == {0, BASE_HEIGHT - 1, MaxHeight}
PacketSizes == {1, 11, 16 + BASE_HEIGHT, DEFAULT_PACKET_SIZE, 16 + MAX_PRINTER_WIDTH * BASE_HEIGHT}
PacketDelays == {0, MaxPacketDelay}
ExitDelays == {0, DEFAULT_EXIT_DELAY}

------------------------------------------------------------------------------
(* Arithmetic and array helpers of the JavaScript runtime *)

Min(a, b) == IF a < b THEN a ELSE b
Max(a, b) == IF a > b THEN a ELSE b

\* Math.ceil(a / b) for b > 0
Ceil(a, b) == -((-a) \div b)

\* Array.prototype.slice(start, end)
Slice(s, start, end) ==
    LET n == Len(s)
        from == IF start < 0 THEN Max(n + start, 0) ELSE Min(start, n)
        to == IF end < 0 THEN Max(n + end, 0) ELSE Min(end, n)
    IN  IF from >= to THEN <<>> ELSE SubSeq(s, from + 1, to)

\* Buffer.from(number[]): every entry is truncated to one byte
ToBuffer(data) == [k \in 1..Len(data) |-> data[k] % BYTE]

------------------------------------------------------------------------------
(* utils/config.ts *)

\* the prefix with the low byte of height and width first
getPrinterProtocol_LittleEndian(imageDimensions) ==
    [firmwareRequest |-> <<16, 255, 32, 241>>,
     prefix |-> <<16, 255, 254, 1, 16, 255, 254, 64, 29, 118, 48,
                  imageDimensions.height % BYTE, imageDimensions.height \div BYTE,
                  imageDimensions.width % BYTE, imageDimensions.width \div BYTE, 0>>,
     postfix |-> <<27, 74, 64, 16, 255, 254, 69>>]
getPrinterProtocol(imageDimensions) ==
    [firmwareRequest |-> <<16, 255, 32, 241>>,
     prefix |-> <<16, 255, 254, 1, 16, 255, 254, 64, 29, 118, 48,
                  imageDimensions.height \div BYTE, imageDimensions.height % BYTE,
                  imageDimensions.width \div BYTE, imageDimensions.width % BYTE, 0>>,
     postfix |-> <<27, 74, 64, 16, 255, 254, 69>>]

------------------------------------------------------------------------------
(* utils/imageProcessor.ts: size of the rendered bitmap *)

\* createImageFromJson: effectiveDimensions without the fallback to the base
effectiveDimensions_TemplateOnly(tpl) ==
    [width |-> tpl.width, height |-> tpl.height, dpi |-> IMAGE_DIMENSIONS.dpi]
\* createImageFromJson: effectiveDimensions
effectiveDimensions(tpl) ==
    [width |-> IF tpl.width # 0 THEN tpl.width ELSE IMAGE_DIMENSIONS.width,
     height |-> IF tpl.height # 0 THEN tpl.height ELSE IMAGE_DIMENSIONS.height,
     dpi |-> IMAGE_DIMENSIONS.dpi]

\* getCanvasConfig: width and height (in pixels) of the canvas
getCanvasConfig(dimensions) ==
    [width |-> IF dimensions.width # 0 THEN dimensions.width ELSE BASE_WIDTH,
     height |-> dimensions.height * 8]

\* canvasToImageData: one byte per 8 pixels of a column, column after column;
\* the byte at 0-based position k of the packed array is PackedByte(k)
PackedByte(k) == k % 251

canvasToImageData(canvasConfig) ==
    [k \in 1..(canvasConfig.width * (canvasConfig.height \div 8)) |-> PackedByte(k - 1)]

------------------------------------------------------------------------------
(* services/printerService.ts *)

\* calculateImageSplits counting only the full splits
calculateImageSplits_Floor(data, imageDimensions) ==
    LET totalWidth == imageDimensions.width
        height == imageDimensions.height
        splits == totalWidth \div MAX_PRINTER_WIDTH
    IN  [s \in 1..splits |->
            LET idx == s - 1
                startPos == idx * MAX_PRINTER_WIDTH * height
                currentWidth == Min(MAX_PRINTER_WIDTH, totalWidth - idx * MAX_PRINTER_WIDTH)
            IN  [data |-> Slice(data, startPos, startPos + currentWidth * height),
                 dimensions |-> [width |-> currentWidth, height |-> height,
                                 dpi |-> imageDimensions.dpi],
                 splitIndex |-> idx,
                 totalSplits |-> splits]]

\* calculateImageSplits starting each split at its first column, not at the
\* first byte of that column
calculateImageSplits_ColumnStart(data, imageDimensions) ==
    LET totalWidth == imageDimensions.width
        height == imageDimensions.height
        splits == Ceil(totalWidth, MAX_PRINTER_WIDTH)
    IN  [s \in 1..splits |->
            LET idx == s - 1
                startPos == idx * MAX_PRINTER_WIDTH
                currentWidth == Min(MAX_PRINTER_WIDTH, totalWidth - idx * MAX_PRINTER_WIDTH)
            IN  [data |-> Slice(data, startPos, startPos + currentWidth * height),
                 dimensions |-> [width |-> currentWidth, height |-> height,
                                 dpi |-> imageDimensions.dpi],
                 splitIndex |-> idx,
                 totalSplits |-> splits]]

\* calculateImageSplits
calculateImageSplits(data, imageDimensions) ==
    LET totalWidth == imageDimensions.width
        height == imageDimensions.height
        splits == Ceil(totalWidth, MAX_PRINTER_WIDTH)
    IN  [s \in 1..splits |->
            LET idx == s - 1
                startPos == idx * MAX_PRINTER_WIDTH * height
                currentWidth == Min(MAX_PRINTER_WIDTH, totalWidth - idx * MAX_PRINTER_WIDTH)
            IN  [data |-> Slice(data, startPos, startPos + currentWidth * height),
                 dimensions |-> [width |-> currentWidth, height |-> height,
                                 dpi |-> imageDimensions.dpi],
                 splitIndex |-> idx,
                 totalSplits |-> splits]]

\* sendImageSplit framing every split with the protocol of the construction
splitProtocol_Cached(split) == getPrinterProtocol(IMAGE_DIMENSIONS)

\* sendImageSplit: the protocol and the message of one split
splitProtocol(split) == getPrinterProtocol(split.dimensions)
splitMessage(split) == splitProtocol(split).prefix \o split.data

------------------------------------------------------------------------------
(* The run *)

Running == exit.by = "none"

Event(ev, kind, split, bytes) == [ev |-> ev, kind |-> kind, split |-> split, bytes |-> bytes]

\* writeData: port.write(Buffer.from(data), callback)
WriteEvent(kind, split, data) == Event("write", kind, split, ToBuffer(data))

\* messages of logger.error
PORT_ERROR == "Serial port error"
PRINT_ERROR == "Error during JSON template printing"
LOAD_ERROR == "Failed to print template"
RENDER_ONLY_ERROR == "Failed to render template"

\* the run applies no function of the pipeline on its own
NO_CALL == [fn |-> "none"]
NO_RESULT == [done |-> FALSE]

\* what a template source holds: a JSON value by its type, the kind of its
\* name property and the kind of its elements property
JsonValue(type, name, elements) == [type |-> type, name |-> name, elements |-> elements]
ValidTemplate == JsonValue("object", "string", "array")
TemplateValues ==
    {ValidTemplate,
     JsonValue("null", "undefined", "undefined"),
     JsonValue("string", "undefined", "undefined"),
     JsonValue("object", "undefined", "array"),
     JsonValue("object", "empty", "array"),
     JsonValue("object", "number", "array"),
     JsonValue("object", "string", "undefined"),
     JsonValue("object", "string", "string")}

\* a template by name, by file path (the file may be missing or may not hold
\* JSON) or as an object in memory
TemplateSources ==
    {[via |-> via, read |-> "ok", value |-> value] :
        via \in {"name", "file", "object"}, value \in TemplateValues}
    \cup {[via |-> via, read |-> read, value |-> ValidTemplate] :
             via \in {"name", "file"}, read \in {"ENOENT", "SyntaxError"}}
SETTLED == [via |-> "none", read |-> "ok", value |-> ValidTemplate]

Resolved(value) == [ok |-> TRUE, value |-> value, error |-> ""]
Rejected(error) == [ok |-> FALSE, value |-> ValidTemplate, error |-> error]

\* validateTemplate accepting every name that is defined
validateTemplate_AnyName(value) ==
    IF value.type # "object" THEN Rejected("Template must be a valid object")
    ELSE IF value.name = "undefined" THEN Rejected("Template must have a name property")
    ELSE IF value.elements # "array" THEN Rejected("Template must have an elements array")
    ELSE Resolved(value)
\* TemplateService.validateTemplate
validateTemplate(value) ==
    IF value.type # "object" THEN Rejected("Template must be a valid object")
    ELSE IF value.name # "string" THEN Rejected("Template must have a name property")
    ELSE IF value.elements # "array" THEN Rejected("Template must have an elements array")
    ELSE Resolved(value)

\* TemplateService.loadTemplate and loadTemplateFromFile
loadTemplate(src) ==
    IF src.read = "ENOENT" THEN Rejected("not found")
    ELSE IF src.read # "ok" \/ ~validateTemplate(src.value).ok
    THEN Rejected("Failed to load template")
    ELSE Resolved(src.value)

\* the getTemplate of runWithTemplateName, runWithFile, renderOnly,
\* renderFileOnly (a load) and of runWithTemplate (a validation)
getTemplate(src) ==
    IF src.via = "object" THEN validateTemplate(src.value) ELSE loadTemplate(src)

\* the longest message a split of this template can have
LongestMessage(tpl) ==
    16 + Min(effectiveDimensions(tpl).width, MAX_PRINTER_WIDTH) * BASE_HEIGHT

\* the state after the construction of JsonPrinterApp, with the packet size
\* of the defaults or of --packet-size
RunInit(packetSizes) ==
    /\ config \in [packetSize : packetSizes, packetDelay : PacketDelays,
                   exitDelay : ExitDelays]
    /\ template \in [width : TemplateWidths, height : TemplateHeights]
    /\ config.packetSize > 0
          => Ceil(LongestMessage(template), config.packetSize) <= MaxPackets
    /\ registered = FALSE
    /\ port = "opening"
    /\ pc = "notStarted"
    /\ protocol = getPrinterProtocol(IMAGE_DIMENSIONS)
    /\ imageData = <<>>
    /\ imageSplits = <<>>
    /\ splitIndex = 0
    /\ message = <<>>
    /\ i = 0
    /\ outstanding = 0
    /\ trace = <<>>
    /\ errorLog = <<>>
    /\ closeCalls = 0
    /\ exit = [code |-> -1, by |-> "none"]
    /\ renderOnly \in BOOLEAN
    /\ call = NO_CALL
    /\ result = NO_RESULT
    /\ source \in TemplateSources
    /\ renderOnly => source.via # "object"
    /\ ~getTemplate(source).ok => template = [width |-> 0, height |-> 0]
    /\ lostData = 0

Init == RunInit(PacketSizes)

sendVars == <<protocol, imageSplits, splitIndex, message, i>>

\* executeWithTemplate: getTemplate() resolved; performPrint registers the
\* "open" callback and the signal handlers
TemplateLoaded ==
    /\ Running
    /\ ~renderOnly
    /\ ~registered
    /\ getTemplate(source).ok
    /\ registered' = TRUE
    /\ source' = SETTLED
    /\ UNCHANGED <<config, template, renderOnly, call, result, lostData, port, pc, imageData, sendVars, outstanding,
                   trace, errorLog, closeCalls, exit>>

\* executeWithTemplate: getTemplate() rejected
TemplateLoadFails ==
    /\ Running
    /\ ~registered
    /\ ~getTemplate(source).ok
    /\ errorLog' = Append(errorLog, IF renderOnly THEN RENDER_ONLY_ERROR ELSE LOAD_ERROR)
    /\ exit' = [code |-> 1, by |-> "load"]
    /\ UNCHANGED <<config, template, renderOnly, call, result, source, lostData, registered, port, pc, imageData, sendVars,
                   outstanding, trace, closeCalls>>

\* executeWithTemplate in render-only mode: getTemplate() resolved;
\* performRenderOnly renders the template and exits
PerformRenderOnly ==
    /\ Running
    /\ renderOnly
    /\ getTemplate(source).ok
    /\ imageData' = canvasToImageData(getCanvasConfig(effectiveDimensions(template)))
    /\ exit' = [code |-> 0, by |-> "renderOnly"]
    /\ UNCHANGED <<config, template, renderOnly, call, result, source, lostData, registered, port, pc,
                   sendVars, outstanding, trace, errorLog, closeCalls>>

\* executeWithTemplate in render-only mode: renderTemplate rejected
PerformRenderOnlyFails ==
    /\ Running
    /\ renderOnly
    /\ getTemplate(source).ok
    /\ errorLog' = Append(errorLog, RENDER_ONLY_ERROR)
    /\ exit' = [code |-> 1, by |-> "load"]
    /\ UNCHANGED <<config, template, renderOnly, call, result, source, lostData, registered, port, pc,
                   imageData, sendVars, outstanding, trace, closeCalls>>

\* the port emits "open"; with the callback registered handleConnection
\* starts and getFirmwareVersion writes the firmware request.  A template
\* object in memory is validated before the event loop delivers an event.
PortOpens ==
    /\ Running
    /\ port = "opening"
    /\ source.via # "object"
    /\ port' = "open"
    /\ IF registered
       THEN /\ pc' = "awaitFwWrite"
            /\ trace' = trace \o <<Event("open", "", 0, <<>>),
                                   WriteEvent("fw", 0, protocol.firmwareRequest)>>
            /\ outstanding' = outstanding + 1
       ELSE UNCHANGED <<pc, trace, outstanding>>
    /\ UNCHANGED <<config, template, renderOnly, call, result, source, lostData, registered, imageData, sendVars, errorLog,
                   closeCalls, exit>>

\* opening fails: the port emits "error"
PortOpenFails ==
    /\ Running
    /\ port = "opening"
    /\ source.via # "object"
    /\ port' = "failed"
    /\ errorLog' = Append(errorLog, PORT_ERROR)
    /\ UNCHANGED <<config, template, renderOnly, call, result, source, lostData, registered, pc, imageData, sendVars,
                   outstanding, trace, closeCalls, exit>>

\* setupEventHandlers: port.on("error")
PortError ==
    /\ Running
    /\ port = "open"
    /\ Len(SelectSeq(errorLog, LAMBDA m : m = PORT_ERROR)) < MaxPortErrors
    /\ errorLog' = Append(errorLog, PORT_ERROR)
    /\ UNCHANGED <<config, template, renderOnly, call, result, source, lostData, registered, port, pc, imageData, sendVars,
                   outstanding, trace, closeCalls, exit>>

\* handleConnection: catch
Fail ==
    /\ errorLog' = Append(errorLog, PRINT_ERROR)
    /\ exit' = [code |-> 1, by |-> "failure"]

\* getFirmwareVersion without the wait for the device's answer
FwWritten_NoWait ==
    /\ Running
    /\ pc = "awaitFwWrite"
    /\ pc' = "render"
    /\ outstanding' = outstanding - 1
    /\ trace' = Append(trace, Event("written", "fw", 0, <<>>))
    /\ UNCHANGED <<config, template, renderOnly, call, result, source, lostData, registered, port, imageData, sendVars,
                   errorLog, closeCalls, exit>>

\* getFirmwareVersion: the request is written, waitForData registers once("data")
FwWritten ==
    /\ Running
    /\ pc = "awaitFwWrite"
    /\ pc' = "awaitData"
    /\ outstanding' = outstanding - 1
    /\ trace' = Append(trace, Event("written", "fw", 0, <<>>))
    /\ UNCHANGED <<config, template, renderOnly, call, result, source, lostData, registered, port, imageData, sendVars,
                   errorLog, closeCalls, exit>>

\* waitForData giving up on the device when a timer fires
DeviceData_Timeout ==
    /\ Running
    /\ port = "open"
    /\ IF pc = "awaitData"
       THEN pc' = "render" /\ lostData' = 0 /\ UNCHANGED trace
       ELSE IF pc = "awaitFwWrite" /\ lostData < MaxLostData
       THEN lostData' = lostData + 1 /\ UNCHANGED <<pc, trace>>
       ELSE UNCHANGED <<pc, trace, lostData>>
    /\ UNCHANGED <<config, template, renderOnly, call, result, source, registered, port, imageData, sendVars,
                   outstanding, errorLog, closeCalls, exit>>

\* the port emits "data": it resolves waitForData when its listener is
\* registered and is dropped otherwise; waitForData registers the listener
\* when the write of the firmware request has completed
DeviceData ==
    /\ Running
    /\ port = "open"
    /\ IF pc = "awaitData"
       THEN /\ pc' = "render"
            /\ trace' = Append(trace, Event("data", "", 0, <<>>))
            /\ lostData' = 0
       ELSE IF pc = "awaitFwWrite" /\ lostData < MaxLostData
       THEN lostData' = lostData + 1 /\ UNCHANGED <<pc, trace>>
       ELSE UNCHANGED <<pc, trace, lostData>>
    /\ UNCHANGED <<config, template, renderOnly, call, result, source, registered, port, imageData, sendVars,
                   outstanding, errorLog, closeCalls, exit>>

\* sendDataInPackets: chunk = data.slice(i, i + packetSize)
packet_short(data, off, size) == Slice(data, off, off + size - 1)
packet(data, off, size) == Slice(data, off, off + size)

\* sendDataInPackets at its loop test for split idx, and what follows the
\* loop: the next split, or the postfix after the last one
SendLoop(splits, idx, prot, msg, off, tr, out) ==
    /\ imageSplits' = splits
    /\ outstanding' = out + 1
    /\ IF off < Len(msg)
       THEN /\ splitIndex' = idx
            /\ protocol' = prot
            /\ message' = msg
            /\ i' = off
            /\ pc' = "awaitPacket"
            /\ trace' = Append(tr, WriteEvent("packet", idx,
                                   packet(msg, off, config.packetSize)))
       ELSE IF idx + 1 < Len(splits)
       THEN /\ splitIndex' = idx + 1
            /\ protocol' = splitProtocol(splits[idx + 2])
            /\ message' = splitMessage(splits[idx + 2])
            /\ i' = 0
            /\ pc' = "awaitPacket"
            /\ trace' = Append(tr, WriteEvent("packet", idx + 1,
                                   packet(splitMessage(splits[idx + 2]), 0, config.packetSize)))
       ELSE /\ pc' = "awaitPostfix"
            /\ trace' = Append(tr, WriteEvent("postfix", idx, prot.postfix))
            /\ UNCHANGED <<splitIndex, protocol, message, i>>

\* writeData resolving also when the callback of port.write gets an error
WriteFails_Swallowed ==
    /\ Running
    /\ pc \in {"awaitFwWrite", "awaitPacket", "awaitPostfix"}
    /\ outstanding' = outstanding - 1
    /\ trace' = Append(trace, Event("failed", trace[Len(trace)].kind, splitIndex, <<>>))
    /\ pc' = CASE pc = "awaitFwWrite" -> "awaitData"
              [] pc = "awaitPacket" -> "delay"
              [] pc = "awaitPostfix" -> "exitDelay"
    /\ UNCHANGED <<config, template, renderOnly, call, result, source, lostData, registered, port, imageData, sendVars,
                   errorLog, closeCalls, exit>>

\* a failed packet makes the run send the image again from its first split
WriteFails_Retry ==
    /\ Running
    /\ pc \in {"awaitFwWrite", "awaitPacket", "awaitPostfix"}
    /\ IF pc = "awaitPacket"
       THEN /\ SendLoop(imageSplits, 0, splitProtocol(imageSplits[1]),
                        splitMessage(imageSplits[1]), 0,
                        Append(trace, Event("failed", "packet", splitIndex, <<>>)),
                        outstanding - 1)
            /\ UNCHANGED <<errorLog, exit>>
       ELSE /\ outstanding' = outstanding - 1
            /\ trace' = Append(trace, Event("failed", trace[Len(trace)].kind, splitIndex, <<>>))
            /\ Fail
            /\ UNCHANGED <<pc, sendVars>>
    /\ UNCHANGED <<config, template, renderOnly, call, result, source, lostData, registered, port, imageData, closeCalls>>

\* writeData: the callback of port.write gets an error
WriteFails ==
    /\ Running
    /\ pc \in {"awaitFwWrite", "awaitPacket", "awaitPostfix"}
    /\ outstanding' = outstanding - 1
    /\ trace' = Append(trace, Event("failed", trace[Len(trace)].kind, splitIndex, <<>>))
    /\ Fail
    /\ UNCHANGED <<config, template, renderOnly, call, result, source, lostData, registered, port, pc, imageData, sendVars,
                   closeCalls>>

\* handleConnection: renderTemplate, then sendImageData up to its first write
Render ==
    /\ Running
    /\ pc = "render"
    /\ LET dims == effectiveDimensions(template)
           canvasConfig == getCanvasConfig(dims)
           data == canvasToImageData(canvasConfig)
           imageDimensions == [IMAGE_DIMENSIONS EXCEPT !.width = canvasConfig.width]
           splits == calculateImageSplits(data, imageDimensions)
           tr == Append(trace, Event("render", "", 0, <<>>))
       IN  /\ imageData' = data
           /\ IF Len(splits) = 0
              THEN SendLoop(splits, 0, protocol, <<>>, 0, tr, outstanding)
              ELSE SendLoop(splits, 0, splitProtocol(splits[1]),
                            splitMessage(splits[1]), 0, tr, outstanding)
    /\ UNCHANGED <<config, template, renderOnly, call, result, source, lostData, registered, port, errorLog, closeCalls, exit>>

\* renderTemplate throws (the canvas cannot be created)
RenderFails ==
    /\ Running
    /\ pc = "render"
    /\ Fail
    /\ UNCHANGED <<config, template, renderOnly, call, result, source, lostData, registered, port, pc, imageData, sendVars,
                   outstanding, trace, closeCalls>>

\* a loop whose index does not grow is followed for MaxStalledWrites packets
Stalled ==
    /\ config.packetSize <= 0
    /\ Len(SelectSeq(trace, LAMBDA e : e.ev = "write" /\ e.kind = "packet"))
          >= MaxStalledWrites

\* sendDataInPackets: a packet is written; delay(packetDelay) sets a timer
\* when packetDelay > 0 and otherwise the loop goes on
PacketWritten ==
    /\ Running
    /\ pc = "awaitPacket"
    /\ ~Stalled
    /\ LET tr == Append(trace, Event("written", "packet", splitIndex, <<>>))
       IN  IF config.packetDelay > 0
           THEN /\ pc' = "delay"
                /\ outstanding' = outstanding - 1
                /\ trace' = tr
                /\ UNCHANGED sendVars
           ELSE /\ SendLoop(imageSplits, splitIndex, protocol, message,
                            i + config.packetSize, tr, outstanding - 1)
    /\ UNCHANGED <<config, template, renderOnly, call, result, source, lostData, registered, port, imageData, errorLog,
                   closeCalls, exit>>

\* sendDataInPackets not awaiting writeData: the timer of packetDelay may
\* fire while the write is still outstanding
DelayElapsed_NoAwait ==
    /\ Running
    /\ pc \in {"delay", "awaitPacket"}
    /\ SendLoop(imageSplits, splitIndex, protocol, message,
                i + config.packetSize, trace, outstanding)
    /\ UNCHANGED <<config, template, renderOnly, call, result, source, lostData, registered, port, imageData, errorLog,
                   closeCalls, exit>>

\* delay: the timer of packetDelay fires and the loop goes on
DelayElapsed ==
    /\ Running
    /\ pc = "delay"
    /\ ~Stalled
    /\ SendLoop(imageSplits, splitIndex, protocol, message,
                i + config.packetSize, trace, outstanding)
    /\ UNCHANGED <<config, template, renderOnly, call, result, source, lostData, registered, port, imageData, errorLog,
                   closeCalls, exit>>

\* handleConnection: process.exit(0)
Succeed(tr) ==
    /\ trace' = Append(tr, Event("exit", "", 0, <<>>))
    /\ exit' = [code |-> 0, by |-> "success"]

\* sendImageData: the postfix is written; waitForCompletion sets a timer when
\* exitDelay > 0 and otherwise handleConnection exits
PostfixWritten ==
    /\ Running
    /\ pc = "awaitPostfix"
    /\ outstanding' = outstanding - 1
    /\ LET tr == trace \o <<Event("written", "postfix", splitIndex, <<>>),
                            Event("wait", "", config.exitDelay, <<>>)>>
       IN  IF config.exitDelay > 0
           THEN /\ pc' = "exitDelay"
                /\ trace' = tr
                /\ UNCHANGED exit
           ELSE /\ Succeed(tr)
                /\ UNCHANGED pc
    /\ UNCHANGED <<config, template, renderOnly, call, result, source, lostData, registered, port, imageData, sendVars,
                   errorLog, closeCalls>>

\* waitForCompletion: the timer of exitDelay fires
ExitDelayElapsed ==
    /\ Running
    /\ pc = "exitDelay"
    /\ Succeed(trace)
    /\ UNCHANGED <<config, template, renderOnly, call, result, source, lostData, registered, port, pc, imageData, sendVars,
                   outstanding, errorLog, closeCalls>>

\* PrinterService.close
close ==
    IF port = "open"
    THEN port' = "closed" /\ closeCalls' = closeCalls + 1
    ELSE UNCHANGED <<port, closeCalls>>

\* setupProcessHandlers: SIGINT or SIGTERM
Signal ==
    /\ Running
    /\ registered
    /\ close
    /\ exit' = [code |-> 0, by |-> "signal"]
    /\ UNCHANGED <<config, template, renderOnly, call, result, source, lostData, registered, pc, imageData, sendVars,
                   outstanding, trace, errorLog>>

Next ==
    \/ TemplateLoaded
    \/ TemplateLoadFails
    \/ PerformRenderOnly
    \/ PerformRenderOnlyFails
    \/ PortOpens
    \/ PortOpenFails
    \/ PortError
    \/ WriteFails
    \/ FwWritten
    \/ DeviceData
    \/ Render
    \/ RenderFails
    \/ PacketWritten
    \/ DelayElapsed
    \/ PostfixWritten
    \/ ExitDelayElapsed
    \/ Signal

Spec == Init /\ [][Next]_vars

\* what the event loop is bound to run once it is enabled: the settling of
\* getTemplate(), the callback of a write, the rendering, a timer.  The
\* port, the device behind it and the signals are under no obligation.
Progress ==
    \/ TemplateLoaded
    \/ TemplateLoadFails
    \/ PerformRenderOnly
    \/ PerformRenderOnlyFails
    \/ WriteFails
    \/ FwWritten
    \/ Render
    \/ RenderFails
    \/ PacketWritten
    \/ DelayElapsed
    \/ PostfixWritten
    \/ ExitDelayElapsed

\* the runs on a template one column wide, sent in one packet of the default
\* size, or with --packet-size 0 or -1
FairInit ==
    /\ RunInit({-1, 0, DEFAULT_PACKET_SIZE})
    /\ getTemplate(source).ok => template = [width |-> 1, height |-> 0]

FairSpec == FairInit /\ [][Next]_vars /\ WF_vars(Progress)

------------------------------------------------------------------------------
(* utils/imageProcessor.ts: the packer *)

WHITE_PIXEL_VALUE == 255
BITS_PER_BYTE == 8
BYTES_PER_PIXEL == 4

\* bounds of the surfaces handed to the packer
MaxCanvasWidth == 2
MaxCanvasHeight == 17

\* grey levels of a pixel that is not white: black, and the lightest grey
\* anti-aliasing leaves
DarkLevels == {0, WHITE_PIXEL_VALUE - 1}

\* createCanvas(width, height) and canvas.toBuffer('raw'): 4 bytes per pixel,
\* row after row from the top; paint[<<x, y>>] is the grey level of a pixel
Canvas(width, height, paint) ==
    [stride |-> BYTES_PER_PIXEL * width,
     pixels |-> [k \in 1..(BYTES_PER_PIXEL * width * height) |->
                   IF (k - 1) % BYTES_PER_PIXEL = BYTES_PER_PIXEL - 1
                   THEN WHITE_PIXEL_VALUE
                   ELSE paint[<<((k - 1) % (BYTES_PER_PIXEL * width)) \div BYTES_PER_PIXEL,
                                (k - 1) \div (BYTES_PER_PIXEL * width)>>]]]

\* configureContext: the background is filled with white
blankCanvas(canvasConfig) ==
    Canvas(canvasConfig.width, canvasConfig.height,
           [xy \in (0..(canvasConfig.width - 1)) \X (0..(canvasConfig.height - 1)) |->
               WHITE_PIXEL_VALUE])

\* canvasToImageData: bit = blueValue === WHITE_PIXEL_VALUE ? 0 : 1
pixelBit_OnlyBlack(blueValue) == IF blueValue = 0 THEN 1 ELSE 0
pixelBit(blueValue) == IF blueValue = WHITE_PIXEL_VALUE THEN 0 ELSE 1

\* canvasToImageData: bitChunk.unshift(bit)
unshift_Push(bitChunk, bit) == Append(bitChunk, bit)
unshift(bitChunk, bit) == <<bit>> \o bitChunk

\* canvasToImageData: const bitChunk = [] at the start of a column; previous
\* is what the column before left in its bitChunk
bitChunkOfColumn_Carried(previous) == previous
bitChunkOfColumn(previous) == <<>>

\* bitArrayToByte: bit at index sets 1 << index
RECURSIVE bitArrayToByte(_)
bitArrayToByte(bitArray) ==
    IF bitArray = <<>> THEN 0
    ELSE LET index == Len(bitArray) - 1
         IN  bitArrayToByte(SubSeq(bitArray, 1, index))
               + (IF bitArray[index + 1] = 1 THEN 2 ^ index ELSE 0)

\* canvasToImageData: the body of the inner loop for the pixel (x, y); the
\* bytes it pushes and the bitChunk it leaves
packPixel(canvas, x, y, bitChunk) ==
    LET pixelIndex == y * canvas.stride + x * BYTES_PER_PIXEL
        blueValue == canvas.pixels[pixelIndex + 1]
        chunk == unshift(bitChunk, pixelBit(blueValue))
    IN  IF Len(chunk) = BITS_PER_BYTE
        THEN [bytes |-> <<bitArrayToByte(chunk)>>, bitChunk |-> <<>>]
        ELSE [bytes |-> <<>>, bitChunk |-> chunk]

\* canvasToImageData: the inner loop of column x over the rows from..to,
\* from >= to, one after the other downwards (the range is halved to keep
\* the evaluation shallow)
RECURSIVE packColumn(_, _, _, _, _)
packColumn(canvas, x, from, to, bitChunk) ==
    IF from < to THEN [bytes |-> <<>>, bitChunk |-> bitChunk]
    ELSE IF from = to THEN packPixel(canvas, x, from, bitChunk)
    ELSE LET middle == (from + to) \div 2
             lower == packColumn(canvas, x, from, middle + 1, bitChunk)
             upper == packColumn(canvas, x, middle, to, lower.bitChunk)
         IN  [bytes |-> lower.bytes \o upper.bytes, bitChunk |-> upper.bitChunk]

\* canvasToImageData: the outer loop over the columns first..last, one after
\* the other (the range is halved to keep the evaluation shallow); previous
\* is the bitChunk left by column first - 1
RECURSIVE packColumns(_, _, _, _, _)
packColumns(canvas, canvasConfig, first, last, previous) ==
    IF first > last THEN [bytes |-> <<>>, bitChunk |-> previous]
    ELSE IF first = last
    THEN packColumn(canvas, first, canvasConfig.height - 1, 0,
                    bitChunkOfColumn(previous))
    ELSE LET middle == (first + last) \div 2
             left == packColumns(canvas, canvasConfig, first, middle, previous)
             right == packColumns(canvas, canvasConfig, middle + 1, last, left.bitChunk)
         IN  [bytes |-> left.bytes \o right.bytes, bitChunk |-> right.bitChunk]

\* canvasToImageData on the raw pixels of a canvas
packCanvas(canvas, canvasConfig) ==
    packColumns(canvas, canvasConfig, 0, canvasConfig.width - 1, <<>>).bytes

\* logger.error of saveJsonDebugImage
DEBUG_IMAGE_ERROR == "Failed to save JSON template debug image"

\* what the debug configuration and the file system are for one rendering:
\* debug mode off, or on with the write of the PNG and of the JSON debug
\* info succeeding or failing
DEBUG_OFF == [debugMode |-> FALSE, png |-> "ok", json |-> "ok"]
DebugRuns ==
    {DEBUG_OFF}
    \cup {[debugMode |-> TRUE, png |-> png, json |-> json] :
             png \in {"ok", "fails"}, json \in {"ok", "fails"}}

\* saveJsonDebugImage without its try/catch
saveJsonDebugImage_Uncaught(debug) ==
    IF debug.png # "ok" THEN [outcome |-> "threw", files |-> <<>>, errors |-> <<>>]
    ELSE IF debug.json # "ok"
    THEN [outcome |-> "threw", files |-> <<"png">>, errors |-> <<>>]
    ELSE [outcome |-> "returned", files |-> <<"png", "json">>, errors |-> <<>>]
\* saveJsonDebugImage: the files written and the errors logged; the canvas
\* is read by canvas.toBuffer and not drawn on
saveJsonDebugImage(debug) ==
    IF debug.png # "ok"
    THEN [outcome |-> "returned", files |-> <<>>, errors |-> <<DEBUG_IMAGE_ERROR>>]
    ELSE IF debug.json # "ok"
    THEN [outcome |-> "returned", files |-> <<"png">>, errors |-> <<DEBUG_IMAGE_ERROR>>]
    ELSE [outcome |-> "returned", files |-> <<"png", "json">>, errors |-> <<>>]

\* createImageFromJson for a template without elements: the surface is the
\* white background; in debug mode saveJsonDebugImage is awaited before the
\* surface is packed
createImageFromJson(tpl, debug) ==
    LET canvasConfig == getCanvasConfig(effectiveDimensions(tpl))
        canvas == blankCanvas(canvasConfig)
        saved == IF debug.debugMode THEN saveJsonDebugImage(debug)
                 ELSE [outcome |-> "returned", files |-> <<>>, errors |-> <<>>]
    IN  [outcome |-> saved.outcome,
         imageData |-> IF saved.outcome = "returned"
                       THEN packCanvas(canvas, canvasConfig) ELSE <<>>,
         config |-> canvasConfig,
         canvas |-> [width |-> canvasConfig.width,
                     height |-> Len(canvas.pixels) \div canvas.stride],
         files |-> saved.files,
         errors |-> saved.errors]

------------------------------------------------------------------------------
(* utils/imageProcessor.ts: the renderer *)

STANDARD_DPI == 96
DEFAULT_FONT_SIZE == 12

\* a property that a JSON value does not have, and a null value
UNDEFINED == [undefined |-> TRUE]

\* Math.round(value * config.scaleFactor), scaleFactor = dpi / STANDARD_DPI
scaled(value, canvasConfig) ==
    (2 * value * canvasConfig.scaleFactor.dpi + canvasConfig.scaleFactor.standard)
        \div (2 * canvasConfig.scaleFactor.standard)

\* getCanvasConfig with the scale factor and the font size of the options
canvasConfigOf(dimensions, options) ==
    LET scaleFactor == [dpi |-> dimensions.dpi, standard |-> STANDARD_DPI]
    IN  [width |-> getCanvasConfig(dimensions).width,
         height |-> getCanvasConfig(dimensions).height,
         scaleFactor |-> scaleFactor,
         adjustedFontSize |->
             scaled(options.fontSize, [scaleFactor |-> scaleFactor])]

\* strings are sequences of characters
RECURSIVE digits(_)
digits(n) ==
    LET last == <<<<"0", "1", "2", "3", "4", "5", "6", "7", "8", "9">>[(n % 10) + 1]>>
    IN  IF n < 10 THEN last ELSE digits(n \div 10) \o last

\* String(value) of a variable: a string or a non-negative integer
String(value) == IF value.type = "number" THEN digits(value.number) ELSE value.chars

\* result.replace(new RegExp(pattern, 'g'), replacement) for a pattern
\* without regular expression operators and a replacement without "$"
RECURSIVE replaceAll(_, _, _)
replaceAll(str, pattern, replacement) ==
    IF Len(str) < Len(pattern) \/ pattern = <<>> THEN str
    ELSE IF SubSeq(str, 1, Len(pattern)) = pattern
    THEN replacement \o replaceAll(SubSeq(str, Len(pattern) + 1, Len(str)),
                                   pattern, replacement)
    ELSE <<Head(str)>> \o replaceAll(Tail(str), pattern, replacement)

\* processVariables: placeholder = `{{${key}}}`
placeholder(key) == <<"{", "{">> \o key \o <<"}", "}">>

\* processVariables: the reduce over Object.entries(variables); variables is
\* the sequence of the entries, empty when there are none
RECURSIVE processVariables(_, _)
processVariables(content, variables) ==
    IF variables = <<>> THEN content
    ELSE processVariables(
             replaceAll(content, placeholder(Head(variables).key),
                        String(Head(variables).value)),
             Tail(variables))

\* COLORS
WHITE == "#ffffff"
BLACK == "#000000"
NO_FONT == [size |-> 0, family |-> ""]

\* the 2d context of the canvas after configureContext: the drawing state
\* and the stack of saved states
configureContext(canvasConfig, options) ==
    [fillStyle |-> BLACK,
     strokeStyle |-> BLACK,
     lineWidth |-> 1,
     font |-> [size |-> canvasConfig.adjustedFontSize, family |-> options.fontFamily],
     textAlign |-> "start",
     saved |-> <<>>]

\* ctx.save() and ctx.restore()
save(ctx) == [ctx EXCEPT !.saved = Append(@, [ctx EXCEPT !.saved = <<>>])]
restore(ctx) ==
    IF ctx.saved = <<>> THEN ctx
    ELSE [ctx.saved[Len(ctx.saved)] EXCEPT
              !.saved = SubSeq(ctx.saved, 1, Len(ctx.saved) - 1)]

\* a drawing call as the canvas sees it: its arguments and the part of the
\* drawing state it uses
fillInk(ctx) ==
    [style |-> ctx.fillStyle, lineWidth |-> 0, font |-> NO_FONT, textAlign |-> ""]
strokeInk(ctx) ==
    [style |-> ctx.strokeStyle, lineWidth |-> ctx.lineWidth, font |-> NO_FONT,
     textAlign |-> ""]
textInk(ctx) ==
    [style |-> ctx.fillStyle, lineWidth |-> 0, font |-> ctx.font,
     textAlign |-> ctx.textAlign]
Draw(op, args, text, ink) == [op |-> op, args |-> args, text |-> text, ink |-> ink]

\* how a draw routine ends: it returns, it throws, it never ends, or (for
\* renderElement) the type is not known
Drawn(ctx, ops) == [outcome |-> "drawn", ctx |-> ctx, ops |-> ops]
Thrown(ctx) == [outcome |-> "threw", ctx |-> ctx, ops |-> <<>>]
Hangs(ctx) == [outcome |-> "hangs", ctx |-> ctx, ops |-> <<>>]
Unknown(ctx) == [outcome |-> "unknown", ctx |-> ctx, ops |-> <<>>]

renderTextElement(ctx, element, canvasConfig, variables) ==
    LET content == processVariables(element.content, variables)
        fontSize == IF element.fontSize # 0
                    THEN scaled(element.fontSize, canvasConfig)
                    ELSE canvasConfig.adjustedFontSize
        fontFamily == IF element.fontFamily # "" THEN element.fontFamily ELSE "Arial"
        styled == [save(ctx) EXCEPT
                      !.font = [size |-> fontSize, family |-> fontFamily],
                      !.textAlign = IF element.align # "" THEN element.align ELSE "left",
                      !.fillStyle = BLACK]
    IN  IF element.position = UNDEFINED THEN Thrown(styled)
        ELSE Drawn(restore(styled),
                   <<Draw("fillText",
                          <<scaled(element.position.x, canvasConfig),
                            scaled(element.position.y, canvasConfig)>>,
                          content, textInk(styled))>>)

renderLineElement(ctx, element, canvasConfig) ==
    LET styled == [save(ctx) EXCEPT
                      !.strokeStyle = BLACK,
                      !.lineWidth = IF element.width # 0 THEN element.width ELSE 1]
    IN  IF element.start = UNDEFINED \/ element.end = UNDEFINED THEN Thrown(styled)
        ELSE Drawn(restore(styled),
                   <<Draw("strokeLine",
                          <<scaled(element.start.x, canvasConfig),
                            scaled(element.start.y, canvasConfig),
                            scaled(element.end.x, canvasConfig),
                            scaled(element.end.y, canvasConfig)>>,
                          <<>>, strokeInk(styled))>>)

renderRectangleElement(ctx, element, canvasConfig) ==
    IF element.position = UNDEFINED THEN Thrown(save(ctx))
    ELSE LET args == <<scaled(element.position.x, canvasConfig),
                       scaled(element.position.y, canvasConfig),
                       scaled(element.width, canvasConfig),
                       scaled(element.height, canvasConfig)>>
             filled == [save(ctx) EXCEPT !.fillStyle = BLACK]
             outlined == [save(ctx) EXCEPT !.strokeStyle = BLACK]
         IN  IF element.filled
             THEN Drawn(restore(filled), <<Draw("fillRect", args, <<>>, fillInk(filled))>>)
             ELSE Drawn(restore(outlined),
                        <<Draw("strokeRect", args, <<>>, strokeInk(outlined))>>)

renderCircleElement(ctx, element, canvasConfig) ==
    IF element.center = UNDEFINED THEN Thrown(save(ctx))
    ELSE LET args == <<scaled(element.center.x, canvasConfig),
                       scaled(element.center.y, canvasConfig),
                       scaled(element.radius, canvasConfig)>>
             filled == [save(ctx) EXCEPT !.fillStyle = BLACK]
             outlined == [save(ctx) EXCEPT !.strokeStyle = BLACK]
         IN  IF element.filled
             THEN Drawn(restore(filled), <<Draw("fillArc", args, <<>>, fillInk(filled))>>)
             ELSE Drawn(restore(outlined),
                        <<Draw("strokeArc", args, <<>>, strokeInk(outlined))>>)

\* renderStripeElement and renderGridElement: bounds
scaledBounds(element, canvasConfig) ==
    IF element.bounds # UNDEFINED
    THEN [x |-> scaled(element.bounds.x, canvasConfig),
          y |-> scaled(element.bounds.y, canvasConfig),
          width |-> scaled(element.bounds.width, canvasConfig),
          height |-> scaled(element.bounds.height, canvasConfig)]
    ELSE [x |-> 0, y |-> 0, width |-> canvasConfig.width, height |-> canvasConfig.height]

\* renderStripeElement: the loop of the horizontal stripes from y on, and the
\* loop of the vertical stripes from x on; spacing > 0
RECURSIVE horizontalStripes(_, _, _, _, _)
\* the horizontal stripes without Math.min on the height of a stripe
horizontalStripes_Unclipped(y, bounds, spacing, stripeWidth, ink) ==
    IF ~(y < bounds.y + bounds.height) THEN <<>>
    ELSE <<Draw("fillRect", <<bounds.x, y, bounds.width, stripeWidth>>, <<>>, ink)>>
         \o horizontalStripes(y + spacing, bounds, spacing, stripeWidth, ink)
horizontalStripes(y, bounds, spacing, stripeWidth, ink) ==
    IF ~(y < bounds.y + bounds.height) THEN <<>>
    ELSE <<Draw("fillRect",
                <<bounds.x, y, bounds.width,
                  Min(stripeWidth, bounds.y + bounds.height - y)>>, <<>>, ink)>>
         \o horizontalStripes(y + spacing, bounds, spacing, stripeWidth, ink)

RECURSIVE verticalStripes(_, _, _, _, _)
verticalStripes(x, bounds, spacing, stripeWidth, ink) ==
    IF ~(x < bounds.x + bounds.width) THEN <<>>
    ELSE <<Draw("fillRect",
                <<x, bounds.y, Min(stripeWidth, bounds.x + bounds.width - x),
                  bounds.height>>, <<>>, ink)>>
         \o verticalStripes(x + spacing, bounds, spacing, stripeWidth, ink)

\* a loop whose variable does not grow never ends once it is entered
renderStripeElement(ctx, element, canvasConfig) ==
    LET styled == [save(ctx) EXCEPT !.fillStyle = BLACK]
        bounds == scaledBounds(element, canvasConfig)
        spacing == scaled(element.spacing, canvasConfig)
        stripeWidth == scaled(element.width, canvasConfig)
    IN  IF element.direction = "horizontal"
        THEN IF spacing <= 0 /\ bounds.height > 0 THEN Hangs(styled)
             ELSE Drawn(restore(styled),
                        horizontalStripes(bounds.y, bounds, spacing, stripeWidth,
                                          fillInk(styled)))
        ELSE IF spacing <= 0 /\ bounds.width > 0 THEN Hangs(styled)
             ELSE Drawn(restore(styled),
                        verticalStripes(bounds.x, bounds, spacing, stripeWidth,
                                        fillInk(styled)))

\* renderGridElement: the loop of the vertical lines from x on, and the loop
\* of the horizontal lines from y on; the cell size is > 0
RECURSIVE verticalLines(_, _, _, _)
verticalLines(x, bounds, cellWidth, ink) ==
    IF ~(x <= bounds.x + bounds.width) THEN <<>>
    ELSE <<Draw("strokeLine", <<x, bounds.y, x, bounds.y + bounds.height>>, <<>>, ink)>>
         \o verticalLines(x + cellWidth, bounds, cellWidth, ink)

RECURSIVE horizontalLines(_, _, _, _)
horizontalLines(y, bounds, cellHeight, ink) ==
    IF ~(y <= bounds.y + bounds.height) THEN <<>>
    ELSE <<Draw("strokeLine", <<bounds.x, y, bounds.x + bounds.width, y>>, <<>>, ink)>>
         \o horizontalLines(y + cellHeight, bounds, cellHeight, ink)

renderGridElement(ctx, element, canvasConfig) ==
    LET styled == [save(ctx) EXCEPT
                      !.strokeStyle = BLACK,
                      !.lineWidth = IF element.lineWidth # 0 THEN element.lineWidth ELSE 1]
        bounds == scaledBounds(element, canvasConfig)
        cellWidth == scaled(element.cellWidth, canvasConfig)
        cellHeight == scaled(element.cellHeight, canvasConfig)
    IN  IF \/ cellWidth <= 0 /\ bounds.width >= 0
           \/ cellHeight <= 0 /\ bounds.height >= 0
        THEN Hangs(styled)
        ELSE Drawn(restore(styled),
                   verticalLines(bounds.x, bounds, cellWidth, strokeInk(styled))
                   \o horizontalLines(bounds.y, bounds, cellHeight, strokeInk(styled)))

\* renderElement: the switch on element.type; reading the type of a null
\* element throws
renderElement(ctx, element, canvasConfig, variables) ==
    IF element = UNDEFINED THEN Thrown(ctx)
    ELSE CASE element.type = "text" ->
                  renderTextElement(ctx, element, canvasConfig, variables)
           [] element.type = "line" -> renderLineElement(ctx, element, canvasConfig)
           [] element.type = "rectangle" ->
                  renderRectangleElement(ctx, element, canvasConfig)
           [] element.type = "circle" -> renderCircleElement(ctx, element, canvasConfig)
           [] element.type = "stripes" -> renderStripeElement(ctx, element, canvasConfig)
           [] element.type = "grid" -> renderGridElement(ctx, element, canvasConfig)
           [] OTHER -> Unknown(ctx)

\* messages of logger.error
RENDER_ERROR == "Failed to render element"
UNKNOWN_TYPE_ERROR == "Unknown element type"
ElementError(text, index, type) == [message |-> text, index |-> index, type |-> type]

\* renderFromTemplate: the forEach from element index on; state is the
\* context, the drawing calls made, the errors logged and the elements
\* attempted so far.  The catch block reads element.type: for a null element
\* it throws in its turn and ends the forEach.
RECURSIVE renderFrom(_, _, _, _, _)
renderFrom(state, elements, index, canvasConfig, variables) ==
    IF index > Len(elements) THEN state
    ELSE LET element == elements[index]
             rendered == renderElement(state.ctx, element, canvasConfig, variables)
             after == [state EXCEPT
                          !.ctx = rendered.ctx,
                          !.surface = @ \o rendered.ops,
                          !.attempted = Append(@, index)]
         IN  CASE rendered.outcome = "drawn" ->
                      renderFrom(after, elements, index + 1, canvasConfig, variables)
               [] rendered.outcome = "unknown" ->
                      renderFrom([after EXCEPT !.errors =
                                      Append(@, ElementError(UNKNOWN_TYPE_ERROR, 0,
                                                             element.type))],
                                 elements, index + 1, canvasConfig, variables)
               [] rendered.outcome = "threw" /\ element # UNDEFINED ->
                      renderFrom([after EXCEPT !.errors =
                                      Append(@, ElementError(RENDER_ERROR, index,
                                                             element.type))],
                                 elements, index + 1, canvasConfig, variables)
               [] rendered.outcome = "threw" /\ element = UNDEFINED ->
                      [after EXCEPT !.outcome = "threw"]
               [] rendered.outcome = "hangs" -> [after EXCEPT !.outcome = "hangs"]

renderFromTemplate(ctx, canvasConfig, tpl, variables) ==
    renderFrom([outcome |-> "returned", ctx |-> ctx, surface |-> <<>>,
                errors |-> <<>>, attempted |-> <<>>],
               tpl.elements, 1, canvasConfig, variables)

------------------------------------------------------------------------------
(* The functions of the pipeline applied to bounded inputs *)

\* bounds of the arguments
MaxDimension == 65535
MaxOverride == 3
MaxElements == 3

\* surfaces: one grey level everywhere, one dark pixel on white, one white
\* pixel on a dark surface
PixelsOf(width, height) == (0..(width - 1)) \X (0..(height - 1))
Uniform(width, height, level) == [xy \in PixelsOf(width, height) |-> level]
OnePixel(width, height, at, level, background) ==
    [xy \in PixelsOf(width, height) |-> IF xy = at THEN level ELSE background]
Paints(width, height) ==
    {Uniform(width, height, level) : level \in DarkLevels \cup {WHITE_PIXEL_VALUE}}
    \cup {OnePixel(width, height, at, level, WHITE_PIXEL_VALUE) :
             at \in PixelsOf(width, height), level \in DarkLevels}
    \cup {OnePixel(width, height, at, WHITE_PIXEL_VALUE, level) :
             at \in PixelsOf(width, height), level \in DarkLevels}

PackCalls ==
    UNION {{[fn |-> "canvasToImageData",
             canvas |-> Canvas(size[1], size[2], paint),
             config |-> [width |-> size[1], height |-> size[2]]] :
               paint \in Paints(size[1], size[2])} :
           size \in (1..MaxCanvasWidth) \X (1..MaxCanvasHeight)}

DimensionValues == {0, 1, BASE_HEIGHT, BYTE - 1, BYTE, BYTE + 1, MaxDimension}
ProtocolCalls ==
    {[fn |-> "getPrinterProtocol",
      dimensions |-> [width |-> w, height |-> h, dpi |-> BASE_DPI]] :
        w \in DimensionValues, h \in DimensionValues}

\* text contents and variables
Chars(name) ==
    CASE name = "Hello " -> <<"H", "e", "l", "l", "o", " ">>
      [] name = "name" -> <<"n", "a", "m", "e">>
      [] name = "Alice" -> <<"A", "l", "i", "c", "e">>
      [] name = "missing" -> <<"m", "i", "s", "s", "i", "n", "g">>
      [] name = "qty" -> <<"q", "t", "y">>
      [] name = "" -> <<>>
Dollar(key) == <<"$", "{">> \o key \o <<"}">>
Contents ==
    {Chars("Hello ") \o Dollar(Chars("name")),
     Chars("Hello ") \o placeholder(Chars("name")),
     Dollar(Chars("name")) \o Dollar(Chars("name")),
     placeholder(Chars("name")) \o Chars("Hello ") \o placeholder(Chars("name")),
     Dollar(Chars("qty")) \o placeholder(Chars("qty")),
     Dollar(Chars("missing")),
     placeholder(Chars("missing")),
     Chars("Hello "),
     Chars("")}
VariableSets ==
    {<<>>,
     <<[key |-> Chars("name"), value |-> [type |-> "string", chars |-> Chars("Alice")]]>>,
     <<[key |-> Chars("name"), value |-> [type |-> "string", chars |-> Chars("Alice")]],
       [key |-> Chars("qty"), value |-> [type |-> "number", number |-> 42]]>>}

VariableCalls ==
    {[fn |-> "processVariables", content |-> content, variables |-> variables] :
        content \in Contents, variables \in VariableSets}

\* elements of a template: well-formed ones of every type, ones that lack a
\* position object, one of a type that does not exist, and null
Position(x, y) == [x |-> x, y |-> y]
Palette ==
    <<[type |-> "text", content |-> Chars("Hello ") \o placeholder(Chars("name")),
       position |-> Position(10, 20), fontSize |-> 0, fontFamily |-> "",
       align |-> "center"],
      [type |-> "text", content |-> Chars("Hello "), position |-> UNDEFINED,
       fontSize |-> 20, fontFamily |-> "", align |-> ""],
      [type |-> "line", start |-> Position(0, 0), end |-> Position(50, 0), width |-> 3],
      [type |-> "line", start |-> Position(0, 0), end |-> UNDEFINED, width |-> 5],
      [type |-> "rectangle", position |-> Position(5, 5), width |-> 40, height |-> 20,
       filled |-> FALSE],
      [type |-> "rectangle", position |-> Position(5, 5), width |-> 40, height |-> 20,
       filled |-> TRUE],
      [type |-> "rectangle", position |-> UNDEFINED, width |-> 40, height |-> 20,
       filled |-> TRUE],
      [type |-> "circle", center |-> Position(30, 30), radius |-> 10, filled |-> FALSE],
      [type |-> "stripes", direction |-> "vertical", spacing |-> 20, width |-> 5,
       bounds |-> UNDEFINED],
      [type |-> "grid", cellWidth |-> 30, cellHeight |-> 30, lineWidth |-> 2,
       bounds |-> [x |-> 10, y |-> 10, width |-> 60, height |-> 30]],
      [type |-> "barcode"],
      UNDEFINED>>

\* a call of renderFromTemplate on the canvas of the base dimensions
RenderCall(elements) ==
    [fn |-> "renderFromTemplate",
     template |-> [elements |-> elements],
     options |-> [fontSize |-> DEFAULT_FONT_SIZE, fontFamily |-> "Arial"],
     variables |-> <<[key |-> Chars("name"),
                      value |-> [type |-> "string", chars |-> Chars("Alice")]]>>]

CreateCalls ==
    {[fn |-> "createImageFromJson", template |-> [width |-> w, height |-> h],
      debug |-> debug] :
        w \in 0..MaxOverride, h \in 0..MaxOverride, debug \in DebugRuns}

\* templates of one element with bounded geometry, alone or followed by a
\* filled rectangle: every type, widths given and absent (0), bounds given
\* and absent, spacings and cell sizes down to 0
MaxCoordinate == 50
MaxSpacing == 20
Points == {Position(0, 0), Position(7, 3), Position(MaxCoordinate, 40)}
LineWidths == {0, 1, 3}
Extents == {0, 7, MaxCoordinate}
Spacings == {0, 2, 5, MaxSpacing}
StripeWidths == {0, 1, 5, 30}
CellSizes == {0, 9, MaxSpacing}
BoundsGiven ==
    {[x |-> 10, y |-> 10, width |-> 60, height |-> 30],
     [x |-> 5, y |-> 2, width |-> 13, height |-> 7],
     [x |-> 3, y |-> 4, width |-> 0, height |-> 0]}
Texts ==
    {[type |-> "text", content |-> Chars("Hello "), position |-> at, fontSize |-> size,
      fontFamily |-> "", align |-> ""] : at \in Points, size \in {0, 7, MaxSpacing}}
Lines ==
    {[type |-> "line", start |-> from, end |-> to, width |-> width] :
        from \in Points, to \in Points, width \in LineWidths}
Rectangles ==
    {[type |-> "rectangle", position |-> at, width |-> width, height |-> height,
      filled |-> filled] :
        at \in Points, width \in Extents, height \in Extents, filled \in BOOLEAN}
Circles ==
    {[type |-> "circle", center |-> at, radius |-> radius, filled |-> filled] :
        at \in Points, radius \in Extents, filled \in BOOLEAN}
Stripes(bounds) ==
    {[type |-> "stripes", direction |-> direction, spacing |-> spacing,
      width |-> width, bounds |-> bounds] :
        direction \in {"horizontal", "vertical"}, spacing \in Spacings,
        width \in StripeWidths}
Grids(bounds) ==
    {[type |-> "grid", cellWidth |-> cellWidth, cellHeight |-> cellHeight,
      lineWidth |-> lineWidth, bounds |-> bounds] :
        cellWidth \in CellSizes, cellHeight \in CellSizes, lineWidth \in LineWidths}
ShapeCalls(shapes) ==
    {RenderCall(<<element>> \o rest) :
        element \in shapes, rest \in {<<>>, <<Palette[6]>>}}

\* images to split: a surface of the dimensions on which the pixel at row y
\* of column x is dark iff bit y % 8 of x + y \div 8 is set, so that the
\* packed bytes differ from column to column and from group to group
SplitDimensions ==
    {[width |-> 384, height |-> 25, dpi |-> BASE_DPI],
     [width |-> MAX_PRINTER_WIDTH, height |-> 2, dpi |-> BASE_DPI],
     [width |-> MAX_PRINTER_WIDTH + 1, height |-> 2, dpi |-> BASE_DPI],
     [width |-> 1, height |-> 1, dpi |-> BASE_DPI]}
Pattern(width, height) ==
    [xy \in PixelsOf(width, height) |->
        IF ((xy[1] + xy[2] \div BITS_PER_BYTE) \div 2^(xy[2] % BITS_PER_BYTE)) % 2 = 1
        THEN 0 ELSE WHITE_PIXEL_VALUE]
SplitCalls == {[fn |-> "calculateImageSplits", dimensions |-> d] : d \in SplitDimensions}

\* no run is in progress while a function is applied
runVars == <<config, template, registered, port, pc, protocol, imageData,
             imageSplits, splitIndex, message, i, outstanding, trace, errorLog,
             closeCalls, exit, renderOnly, source, lostData>>

PipelineInit ==
    /\ \/ call \in ProtocolCalls
       \/ call \in PackCalls
       \/ call \in CreateCalls
       \/ call \in VariableCalls
       \/ \E n \in 0..MaxElements : \E choice \in [1..n -> 1..Len(Palette)] :
              call = RenderCall([k \in 1..n |-> Palette[choice[k]]])
       \/ call \in SplitCalls
       \/ call \in ShapeCalls(Texts)
       \/ call \in ShapeCalls(Lines)
       \/ call \in ShapeCalls(Rectangles)
       \/ call \in ShapeCalls(Circles)
       \/ call \in ShapeCalls(Stripes(UNDEFINED))
       \/ call \in ShapeCalls(Grids(UNDEFINED))
       \/ \E bounds \in BoundsGiven :
              call \in ShapeCalls(Stripes(bounds)) \cup ShapeCalls(Grids(bounds))
    /\ result = NO_RESULT
    /\ config = [packetSize |-> DEFAULT_PACKET_SIZE, packetDelay |-> 0,
                 exitDelay |-> DEFAULT_EXIT_DELAY]
    /\ template = [width |-> 0, height |-> 0]
    /\ renderOnly = TRUE
    /\ registered = FALSE
    /\ port = "opening"
    /\ pc = "notStarted"
    /\ protocol = getPrinterProtocol(IMAGE_DIMENSIONS)
    /\ imageData = <<>>
    /\ imageSplits = <<>>
    /\ splitIndex = 0
    /\ message = <<>>
    /\ i = 0
    /\ outstanding = 0
    /\ trace = <<>>
    /\ errorLog = <<>>
    /\ closeCalls = 0
    /\ exit = [code |-> -1, by |-> "none"]
    /\ source = SETTLED
    /\ lostData = 0

Returned(value) == [done |-> TRUE, value |-> value]

ApplyGetPrinterProtocol ==
    /\ call.fn = "getPrinterProtocol"
    /\ ~result.done
    /\ result' = Returned(getPrinterProtocol(call.dimensions))
    /\ UNCHANGED <<call, runVars>>

ApplyCanvasToImageData ==
    /\ call.fn = "canvasToImageData"
    /\ ~result.done
    /\ result' = Returned(packCanvas(call.canvas, call.config))
    /\ UNCHANGED <<call, runVars>>

ApplyCreateImageFromJson ==
    /\ call.fn = "createImageFromJson"
    /\ ~result.done
    /\ result' = Returned(createImageFromJson(call.template, call.debug))
    /\ UNCHANGED <<call, runVars>>

ApplyProcessVariables ==
    /\ call.fn = "processVariables"
    /\ ~result.done
    /\ result' = Returned(processVariables(call.content, call.variables))
    /\ UNCHANGED <<call, runVars>>

ApplyRenderFromTemplate ==
    /\ call.fn = "renderFromTemplate"
    /\ ~result.done
    /\ LET canvasConfig == canvasConfigOf(IMAGE_DIMENSIONS, call.options)
       IN  result' = Returned(renderFromTemplate(
                         configureContext(canvasConfig, call.options), canvasConfig,
                         call.template, call.variables))
    /\ UNCHANGED <<call, runVars>>

\* canvasToImageData on the surface of the dimensions, then
\* calculateImageSplits on the packed bytes and the same dimensions
ApplyCalculateImageSplits ==
    /\ call.fn = "calculateImageSplits"
    /\ ~result.done
    /\ LET canvasConfig == getCanvasConfig(call.dimensions)
           canvas == Canvas(canvasConfig.width, canvasConfig.height,
                            Pattern(canvasConfig.width, canvasConfig.height))
           data == packCanvas(canvas, canvasConfig)
       IN  result' = Returned([data |-> data,
                               splits |-> calculateImageSplits(data, call.dimensions)])
    /\ UNCHANGED <<call, runVars>>

PipelineNext ==
    \/ ApplyCalculateImageSplits
    \/ ApplyGetPrinterProtocol
    \/ ApplyCanvasToImageData
    \/ ApplyCreateImageFromJson
    \/ ApplyProcessVariables
    \/ ApplyRenderFromTemplate

PipelineSpec == PipelineInit /\ [][PipelineNext]_vars

------------------------------------------------------------------------------
(* Vocabulary of the properties *)

TypeOK ==
    /\ pc \in {"notStarted", "awaitFwWrite", "awaitData", "render", "awaitPacket",
               "delay", "awaitPostfix", "exitDelay"}
    /\ port \in {"opening", "open", "failed", "closed"}
    /\ registered \in BOOLEAN
    /\ outstanding \in Nat
    /\ exit.by \in {"none", "success", "failure", "load", "signal", "renderOnly"}
    /\ renderOnly \in BOOLEAN

\* sendImageData has computed the splits
Sending == pc \in {"awaitPacket", "delay", "awaitPostfix", "exitDelay"}

\* the width of the image handed to sendImageData
TotalWidth == IF template.width = 0 THEN BASE_WIDTH ELSE template.width

\* the columns of split idx
SplitWidth(idx) == Min(MAX_PRINTER_WIDTH, TotalWidth - MAX_PRINTER_WIDTH * idx)

\* the packets of split idx written so far
PacketWrites(idx) ==
    SelectSeq(trace, LAMBDA e : e.ev = "write" /\ e.kind = "packet" /\ e.split = idx)

\* every packet of split idx has been written
SplitDone(idx) ==
    /\ Sending
    /\ idx < Len(imageSplits)
    /\ idx < splitIndex \/ pc \in {"awaitPostfix", "exitDelay"}

RECURSIVE ConcatBytes(_)
ConcatBytes(events) ==
    IF events = <<>> THEN <<>> ELSE events[1].bytes \o ConcatBytes(Tail(events))

RECURSIVE ConcatData(_)
ConcatData(splits) ==
    IF splits = <<>> THEN <<>> ELSE splits[1].data \o ConcatData(Tail(splits))

RECURSIVE SumWidths(_)
SumWidths(splits) ==
    IF splits = <<>> THEN 0 ELSE splits[1].dimensions.width + SumWidths(Tail(splits))

IsPrefix(s, t) == Len(s) <= Len(t) /\ s = SubSeq(t, 1, Len(s))

------------------------------------------------------------------------------
(* C1 *)

\* the step of the print run an event of the trace belongs to
Phase(e) ==
    CASE e.ev = "open" -> 1
      [] e.ev = "write" /\ e.kind = "fw" -> 2
      [] e.ev = "written" /\ e.kind = "fw" -> 3
      [] e.ev = "data" -> 4
      [] e.ev = "render" -> 5
      [] e.ev \in {"write", "written"} /\ e.kind = "packet" -> 6
      [] e.ev = "write" /\ e.kind = "postfix" -> 7
      [] e.ev = "written" /\ e.kind = "postfix" -> 8
      [] e.ev = "wait" -> 9
      [] e.ev = "exit" -> 10
      [] OTHER -> 0

\* C1: the steps of a print run happen in the order open event, write of the
\* 4-byte firmware request, one data event, rendering, the packets of splits
\* 0..n-1 in increasing split index, the postfix as one single write, the
\* wait of exitDelay, exit with code 0; each step begins when the one before
\* it has completed, and an exit with the success code ends a complete run.
C1_StepsInOrder ==
    /\ \A k \in 1..Len(trace) :
          LET e == trace[k] IN
          e.ev # "failed" =>
            /\ k = 1 => Phase(e) = 1
            /\ k > 1 =>
                 LET d == trace[k - 1] IN
                 /\ Phase(e) \in {Phase(d), Phase(d) + 1}
                 /\ Phase(e) = Phase(d) => Phase(e) = 6
                 /\ e.ev = "write" => d.ev \in {"open", "render", "written"}
                 /\ Phase(e) = 6 /\ Phase(d) = 5 => e.ev = "write" /\ e.split = 0
                 /\ Phase(e) = 6 /\ Phase(d) = 6 =>
                      IF e.ev = "written"
                      THEN d.ev = "write" /\ e.split = d.split
                      ELSE d.ev = "written" /\ e.split \in {d.split, d.split + 1}
                 /\ Phase(e) = 7 =>
                      /\ d.ev = "written"
                      /\ MAX_PRINTER_WIDTH * d.split < TotalWidth
                      /\ TotalWidth <= MAX_PRINTER_WIDTH * (d.split + 1)
            /\ Phase(e) = 2 => e.bytes = <<16, 255, 32, 241>>
            /\ Phase(e) = 7 => e.bytes = <<27, 74, 64, 16, 255, 254, 69>>
            /\ Phase(e) = 9 => e.split = config.exitDelay
    /\ exit.by = "success" <=> (trace # <<>> /\ trace[Len(trace)].ev = "exit")
    /\ exit.by = "success" => exit.code = 0
    /\ pc = "exitDelay" => config.exitDelay > 0

\* a run of three splits and a postfix longer than a packet ended with success
C1_Witness ==
    /\ exit.by = "success"
    /\ Len(imageSplits) = 3
    /\ config.exitDelay > 0

C1_WitnessSmallPacket ==
    /\ exit.by = "success"
    /\ config.packetSize < 7

------------------------------------------------------------------------------
(* C2 *)

\* C2: for a total width W >= 1 calculateImageSplits yields ceil(W/255)
\* splits; split i carries splitIndex i, totalSplits ceil(W/255) and width
\* min(255, W - 255*i); every width is in 1..255, only the last split can be
\* narrower than 255, and the widths sum to W.
C2_SplitGeometry ==
    Sending =>
        LET n == Len(imageSplits) IN
        /\ TotalWidth >= 1
        /\ MAX_PRINTER_WIDTH * (n - 1) < TotalWidth
        /\ TotalWidth <= MAX_PRINTER_WIDTH * n
        /\ \A s \in 1..n :
              LET split == imageSplits[s]
                  rest == TotalWidth - MAX_PRINTER_WIDTH * (s - 1)
              IN  /\ split.splitIndex = s - 1
                  /\ split.totalSplits = n
                  /\ split.dimensions.width =
                        (IF rest < MAX_PRINTER_WIDTH THEN rest ELSE MAX_PRINTER_WIDTH)
                  /\ split.dimensions.width \in 1..MAX_PRINTER_WIDTH
                  /\ split.dimensions.width < MAX_PRINTER_WIDTH => s = n
        /\ SumWidths(imageSplits) = TotalWidth

\* three splits, the last one narrower than the others
C2_Witness ==
    /\ Sending
    /\ Len(imageSplits) = 3
    /\ imageSplits[2].dimensions.width = MAX_PRINTER_WIDTH
    /\ imageSplits[3].dimensions.width < MAX_PRINTER_WIDTH

------------------------------------------------------------------------------
(* C3 *)

\* C3: for a width above 255 the data of the splits, concatenated in split
\* order, is the packed byte sequence, and the data of split i is the range
\* [255*i*height, 255*i*height + splitWidth_i*height) of the packed array.
C3_SplitsReconstructImage ==
    Sending /\ TotalWidth > MAX_PRINTER_WIDTH =>
        /\ ConcatData(imageSplits) = imageData
        /\ \A s \in 1..Len(imageSplits) :
              LET split == imageSplits[s]
                  height == split.dimensions.height
                  start == MAX_PRINTER_WIDTH * (s - 1) * height
              IN  /\ Len(split.data) = SplitWidth(s - 1) * height
                  /\ start + Len(split.data) <= Len(imageData)
                  /\ split.data = SubSeq(imageData, start + 1, start + Len(split.data))

------------------------------------------------------------------------------
(* C4 *)

\* C4: with packet size P >= 1 a message of length L is written in
\* ceil(L/P) packets, every packet but the last has P bytes, the last has
\* L mod P bytes (P when P divides L), and the packets in order are the
\* message; while a message is being sent its packets are a prefix of it.
C4_Packetization ==
    Sending /\ config.packetSize >= 1 =>
        \A idx \in 0..(Len(imageSplits) - 1) :
            LET writes == PacketWrites(idx)
                n == Len(writes)
                P == config.packetSize
                msg == ToBuffer(splitMessage(imageSplits[idx + 1]))
                L == Len(msg)
            IN  /\ \A k \in 1..(n - 1) : Len(writes[k].bytes) = P
                /\ IsPrefix(ConcatBytes(writes), msg)
                /\ SplitDone(idx) =>
                      /\ P * (n - 1) < L
                      /\ L <= P * n
                      /\ Len(writes[n].bytes) = (IF L % P = 0 THEN P ELSE L % P)
                      /\ ConcatBytes(writes) = msg

\* a message of several packets whose length the packet size does not divide
C4_Witness ==
    /\ SplitDone(0)
    /\ Len(PacketWrites(0)) > 2
    /\ Len(splitMessage(imageSplits[1])) % config.packetSize # 0

------------------------------------------------------------------------------
(* C5 *)

\* the bytes written for split idx so far
SplitBytes(idx) == ConcatBytes(PacketWrites(idx))

\* C5: the message written for split i is the prefix of that split's own
\* dimensions followed by the split's data: on the wire the width field of
\* split i is splitWidth_i and the height field is the height handed to
\* sendImageData.
C5_FramingPerSplit ==
    Sending =>
        \A idx \in 0..(Len(imageSplits) - 1) :
            LET sent == SplitBytes(idx)
                w == SplitWidth(idx)
                expected == <<16, 255, 254, 1, 16, 255, 254, 64, 29, 118, 48,
                              0, BASE_HEIGHT, w \div BYTE, w % BYTE, 0>>
                            \o imageSplits[idx + 1].data
            IN  /\ IsPrefix(sent, expected)
                /\ Len(sent) >= 15 => sent[14] * BYTE + sent[15] = w
                /\ SplitDone(idx) => sent = expected

\* a split was sent whose width is neither the total width, nor the width of
\* the construction, nor the width of the split before it
C5_Witness ==
    /\ SplitDone(1)
    /\ SplitWidth(1) \notin {TotalWidth, BASE_WIDTH, SplitWidth(0)}
    /\ SplitBytes(1)[15] = SplitWidth(1)

------------------------------------------------------------------------------
(* C6 *)

\* C6: at most one write is outstanding on the port, and a write is issued
\* only when the write before it has completed: a packet follows the
\* completion of the packet before it, in the same split or the one before.
C6_OneWriteAtATime ==
    /\ outstanding <= 1
    /\ LET io == SelectSeq(trace, LAMBDA e : e.ev \in {"write", "written", "failed"})
       IN  outstanding = (IF io # <<>> /\ io[Len(io)].ev = "write" THEN 1 ELSE 0)
    /\ \A k \in 1..Len(trace) :
          trace[k].ev = "write" =>
            /\ k > 1 =>
                 \/ trace[k - 1].ev = "open"
                 \/ trace[k - 1].ev = "written"
                 \/ /\ trace[k - 1].ev = "render"
                    /\ trace[k - 2].ev = "data"
                    /\ trace[k - 3].ev = "written"
            /\ k > 1 /\ trace[k].kind = "packet" /\ trace[k - 1].ev = "written" =>
                 /\ trace[k - 1].kind = "packet"
                 /\ trace[k - 1].split \in {trace[k].split, trace[k].split - 1}

\* the first packet of a later split is outstanding
C6_Witness ==
    /\ Running
    /\ pc = "awaitPacket"
    /\ splitIndex >= 1
    /\ i = 0
    /\ outstanding = 1

------------------------------------------------------------------------------
(* C7 *)

\* C7: a print run that terminates through handleConnection, with success
\* after exitDelay or with a non-zero code after a failure, has closed the
\* port before the process terminates.
C7_ClosedBeforeExit ==
    exit.by \in {"success", "failure"} => closeCalls > 0 /\ port = "closed"

------------------------------------------------------------------------------
(* C8 *)

\* C8: a failed write (firmware request, packet or postfix) ends the run:
\* nothing is written or done after it, the error is logged, and the process
\* has terminated with a non-zero code.
C8_WriteFailureAborts ==
    \A k \in 1..Len(trace) :
        trace[k].ev = "failed" =>
            /\ k = Len(trace)
            /\ \E m \in 1..Len(errorLog) : errorLog[m] = PRINT_ERROR
            /\ exit.by = "failure"
            /\ exit.code > 0

\* a packet of a later split failed
C8_Witness ==
    /\ trace # <<>>
    /\ trace[Len(trace)].ev = "failed"
    /\ trace[Len(trace)].kind = "packet"
    /\ trace[Len(trace)].split >= 1
    /\ exit.code = 1

------------------------------------------------------------------------------
(* C9 *)

HasPortError == \E m \in 1..Len(errorLog) : errorLog[m] = PORT_ERROR

\* C9: a failure to open the port or a port error event is fatal: once it
\* has happened the port is not left open and the process has terminated
\* with a non-zero code, so the run neither goes on sending nor waits.
C9_PortErrorIsFatal ==
    HasPortError => port # "open" /\ exit.code > 0

------------------------------------------------------------------------------
(* C10 *)

\* the stage of the run
Stage ==
    IF exit.by = "success" THEN "Completed"
    ELSE IF exit.by \in {"failure", "load"} THEN "Failed"
    ELSE CASE pc = "notStarted" -> (IF registered THEN "Connecting" ELSE "Idle")
           [] pc \in {"awaitFwWrite", "awaitData"} -> "AwaitingFirmware"
           [] pc = "render" -> "Rendering"
           [] pc \in {"awaitPacket", "delay"} -> "Sending"
           [] pc \in {"awaitPostfix", "exitDelay"} -> "Finalizing"

StageRank(stage) ==
    CASE stage = "Idle" -> 0
      [] stage = "Connecting" -> 1
      [] stage = "AwaitingFirmware" -> 2
      [] stage = "Rendering" -> 3
      [] stage = "Sending" -> 4
      [] stage = "Finalizing" -> 5
      [] stage \in {"Completed", "Failed"} -> 6

Writes == SelectSeq(trace, LAMBDA e : e.ev = "write")
Renders == SelectSeq(trace, LAMBDA e : e.ev = "render")

\* one step of the run keeps the stage or moves it forward, never lowers the
\* index of the split being sent, and starts from a stage that is not terminal
ForwardStep ==
    /\ Stage \notin {"Completed", "Failed"}
    /\ StageRank(Stage') >= StageRank(Stage)
    /\ splitIndex' >= splitIndex
    /\ Stage' = "Sending" => Stage \in {"Rendering", "Sending"}
    /\ Stage' \in {"Completed", "Failed"} =>
          /\ Len(Writes') = Len(Writes)
          /\ Len(Renders') = Len(Renders)

\* C10: the stage only moves forward through Idle, Connecting,
\* AwaitingFirmware, Rendering, Sending, Finalizing and Completed or Failed;
\* the index of the split being sent never decreases; and once Completed or
\* Failed is reached there is no further write, render or stage change.
C10_StagesForward == [][ForwardStep]_vars

\* the run failed while it was sending a later split
C10_Witness ==
    /\ Stage = "Failed"
    /\ pc = "awaitPacket"
    /\ splitIndex >= 1

\* Failed is entered from each stage that is not terminal
C10_FailedFromIdle == Stage = "Failed" /\ pc = "notStarted" /\ ~registered
C10_FailedFromAwaitingFirmware == Stage = "Failed" /\ pc = "awaitFwWrite"
C10_FailedFromRendering == Stage = "Failed" /\ pc = "render"
C10_FailedFromFinalizing == Stage = "Failed" /\ pc = "awaitPostfix"
C10_CompletedReached == Stage = "Completed"

------------------------------------------------------------------------------
\* C11: in render-only mode the serial channel is never engaged: the port is
\* never open, nothing is written to it and the run never waits on it.
C11_RenderOnlyWithoutPort ==
    renderOnly =>
        /\ port \notin {"open", "closed"}
        /\ trace = <<>>
        /\ outstanding = 0
        /\ pc = "notStarted"

------------------------------------------------------------------------------
\* the events that need the device's answer first
AfterFirmware(e) == e.ev = "render" \/ (e.ev = "write" /\ e.kind # "fw")
DataEvents == SelectSeq(trace, LAMBDA e : e.ev = "data")

\* at most one data event is consumed, and rendering and every prefix, image
\* and postfix write come after it
NothingBeforeData ==
    /\ Len(DataEvents) <= 1
    /\ \A k \in 1..Len(trace) :
          AfterFirmware(trace[k]) => \E j \in 1..(k - 1) : trace[j].ev = "data"
    /\ pc = "awaitData" => DataEvents = <<>> /\ outstanding = 0

\* the wait ends only by a data event, and never in Completed or Failed
WaitStep ==
    pc = "awaitData" =>
        /\ Stage' \notin {"Completed", "Failed"}
        /\ pc' # "awaitData" =>
              /\ pc' = "render"
              /\ trace' = Append(trace, Event("data", "", 0, <<>>))

\* C12: after the firmware request the flow blocks until one data event,
\* without timeout: nothing is rendered or sent before the data event, and
\* while no data arrives the run is neither Completed nor Failed.
C12_BlocksUntilData == []NothingBeforeData /\ [][WaitStep]_vars

\* the device answered after a stray port error, and the first packet of the
\* image is on its way
C12_Witness ==
    /\ Len(DataEvents) = 1
    /\ pc = "awaitPacket"
    /\ HasPortError

\* the run is still waiting for the device
C12_WitnessWaiting == Running /\ pc = "awaitData" /\ HasPortError

------------------------------------------------------------------------------
\* C13: a SIGINT or SIGTERM during a print run ends it like a failure: the
\* port is not left open and the exit status is the non-zero status of a
\* failure.
C13_SignalExitsLikeFailure ==
    exit.by = "signal" => port # "open" /\ exit.code = 1

------------------------------------------------------------------------------
(* The packer *)

Packed == call.fn = "canvasToImageData" /\ result.done
Bit(byte, index) == (byte \div (2 ^ index)) % 2

\* the sampled channel of the pixel (x, y) of the surface handed to the packer
Sampled(x, y) ==
    call.canvas.pixels[y * call.canvas.stride + x * BYTES_PER_PIXEL + 1]
Dark(x, y) == Sampled(x, y) # WHITE_PIXEL_VALUE
SurfacePixels == PixelsOf(call.config.width, call.config.height)
BytesPerColumn == call.config.height \div BITS_PER_BYTE

\* the byte of group g (counted from the bottom) of column x
PackedByteOf(x, g) == result.value[x * BytesPerColumn + g + 1]

\* the row of the pixel visited n-th (n from 0) in group g of a column
VisitedRow(g, n) == call.config.height - 1 - (BITS_PER_BYTE * g + n)

------------------------------------------------------------------------------
Framed == call.fn = "getPrinterProtocol" /\ result.done

\* C15: the prefix is the 11-byte header, height high byte, height low byte,
\* width high byte, width low byte, 0; for height and width in 0..65535 the
\* four bytes are in 0..255 and 256 * high + low is the value; the firmware
\* request and the postfix do not depend on the dimensions.
C15_PrefixLayout ==
    Framed =>
        LET prefix == result.value.prefix
            height == call.dimensions.height
            width == call.dimensions.width
        IN  /\ result.value.firmwareRequest = <<16, 255, 32, 241>>
            /\ result.value.postfix = <<27, 74, 64, 16, 255, 254, 69>>
            /\ Len(prefix) = 16
            /\ SubSeq(prefix, 1, 11) = <<16, 255, 254, 1, 16, 255, 254, 64, 29, 118, 48>>
            /\ prefix[16] = 0
            /\ (height \in 0..(BYTE * BYTE - 1) /\ width \in 0..(BYTE * BYTE - 1)) =>
                  /\ \A k \in 12..15 : prefix[k] \in 0..(BYTE - 1)
                  /\ BYTE * prefix[12] + prefix[13] = height
                  /\ BYTE * prefix[14] + prefix[15] = width

\* height 257 and width 255: the two bytes of height differ from those of width
C15_Witness ==
    /\ Framed
    /\ call.dimensions.height = BYTE + 1
    /\ call.dimensions.width = BYTE - 1
    /\ SubSeq(result.value.prefix, 12, 16) = <<1, 1, 0, BYTE - 1, 0>>

------------------------------------------------------------------------------
Created == call.fn = "createImageFromJson" /\ result.done

\* C18: the surface is effectiveWidth by effectiveHeight * 8 pixels, each
\* effective dimension being the template's when it is given and non-zero
\* and the base dimension otherwise, and the packed output has
\* effectiveWidth * effectiveHeight bytes.
C18_SurfaceSize ==
    Created =>
        LET effectiveWidth ==
                IF call.template.width # 0 THEN call.template.width ELSE BASE_WIDTH
            effectiveHeight ==
                IF call.template.height # 0 THEN call.template.height ELSE BASE_HEIGHT
        IN  /\ result.value.canvas =
                  [width |-> effectiveWidth, height |-> effectiveHeight * 8]
            /\ result.value.config = result.value.canvas
            /\ Len(result.value.imageData) = effectiveWidth * effectiveHeight

\* a template that gives only the height keeps the base width
C18_Witness ==
    /\ Created
    /\ call.template = [width |-> 0, height |-> 2]
    /\ result.value.canvas = [width |-> BASE_WIDTH, height |-> 16]
    /\ Len(result.value.imageData) = 2 * BASE_WIDTH

\* a template that gives only the width keeps the base height
C18_WitnessWidthOnly ==
    /\ Created
    /\ call.template = [width |-> 1, height |-> 0]
    /\ Len(result.value.imageData) = BASE_HEIGHT

------------------------------------------------------------------------------
\* C19: when the pixel height is a multiple of 8 the packed output has
\* width * height / 8 bytes; an all-white surface packs to 0x00 bytes only
\* and an all-non-white one to 0xFF bytes only.
C19_UniformSurfaces ==
    (Packed /\ call.config.height % BITS_PER_BYTE = 0) =>
        /\ BITS_PER_BYTE * Len(result.value) = call.config.width * call.config.height
        /\ (\A xy \in SurfacePixels : ~Dark(xy[1], xy[2])) =>
              \A k \in 1..Len(result.value) : result.value[k] = 0
        /\ (\A xy \in SurfacePixels : Dark(xy[1], xy[2])) =>
              \A k \in 1..Len(result.value) : result.value[k] = BYTE - 1

\* a 2 x 16 surface of the lightest grey packs to four 0xFF bytes
C19_Witness ==
    /\ Packed
    /\ call.config = [width |-> 2, height |-> 2 * BITS_PER_BYTE]
    /\ \A xy \in SurfacePixels : Sampled(xy[1], xy[2]) = WHITE_PIXEL_VALUE - 1
    /\ result.value = <<BYTE - 1, BYTE - 1, BYTE - 1, BYTE - 1>>

\* a 2 x 8 white surface packs to two 0x00 bytes
C19_WitnessWhite ==
    /\ Packed
    /\ call.config = [width |-> 2, height |-> BITS_PER_BYTE]
    /\ \A xy \in SurfacePixels : ~Dark(xy[1], xy[2])
    /\ result.value = <<0, 0>>

------------------------------------------------------------------------------
\* the surface without its top rows
CropTop(canvas, rows) ==
    [stride |-> canvas.stride,
     pixels |-> SubSeq(canvas.pixels, rows * canvas.stride + 1, Len(canvas.pixels))]

\* column x of the surface as a surface of width 1
ColumnOf(canvas, x, height) ==
    [stride |-> BYTES_PER_PIXEL,
     pixels |-> [k \in 1..(BYTES_PER_PIXEL * height) |->
                   canvas.pixels[((k - 1) \div BYTES_PER_PIXEL) * canvas.stride
                                 + x * BYTES_PER_PIXEL + ((k - 1) % BYTES_PER_PIXEL) + 1]]]

\* C20: when the pixel height is not a multiple of 8 every column gives
\* floor(height / 8) bytes: the rows of the partial group (the top ones) do
\* not show in the output, and the bytes of a column are those of the column
\* packed alone, whatever the column before left over.
C20_PartialGroupDropped ==
    (Packed /\ call.config.height % BITS_PER_BYTE # 0) =>
        LET width == call.config.width
            height == call.config.height
            partial == height % BITS_PER_BYTE
        IN  /\ Len(result.value) = width * BytesPerColumn
            /\ result.value = packCanvas(CropTop(call.canvas, partial),
                                         [width |-> width, height |-> height - partial])
            /\ \A x \in 0..(width - 1) :
                  SubSeq(result.value, x * BytesPerColumn + 1, (x + 1) * BytesPerColumn)
                      = packCanvas(ColumnOf(call.canvas, x, height),
                                   [width |-> 1, height |-> height])

\* a 2 x 12 surface whose only dark pixel is in the partial group of column
\* 0: one 0x00 byte per column
C20_Witness ==
    /\ Packed
    /\ call.config = [width |-> 2, height |-> BITS_PER_BYTE + 4]
    /\ \A xy \in SurfacePixels : Dark(xy[1], xy[2]) <=> xy = <<0, 0>>
    /\ result.value = <<0, 0>>

------------------------------------------------------------------------------
(* C16 *)

Substituted == call.fn = "processVariables" /\ result.done

\* the content with every ${key} of a variable replaced by its value
RECURSIVE Documented(_, _)
Documented(content, variables) ==
    IF variables = <<>> THEN content
    ELSE Documented(replaceAll(content, Dollar(Head(variables).key),
                               String(Head(variables).value)),
                    Tail(variables))

\* C16: every ${name} whose name is a key of the variables is replaced by the
\* variable's string representation ("Hello ${name}" with name = "Alice" is
\* "Hello Alice"); a placeholder without a variable stays as it is.
C16_DollarPlaceholders ==
    Substituted => result.value = Documented(call.content, call.variables)

\* what the code does with the content of the claim
C16_HelloName ==
    /\ Substituted
    /\ call.content = Chars("Hello ") \o Dollar(Chars("name"))
    /\ call.variables # <<>>
    /\ result.value = call.content

------------------------------------------------------------------------------
(* C17 *)

Rendered == call.fn = "renderFromTemplate" /\ result.done

\* an element of an unknown type, or one whose draw routine throws
UnknownType(element) ==
    element.type \notin {"text", "line", "rectangle", "circle", "stripes", "grid"}
Throws(element) ==
    CASE element.type \in {"text", "rectangle"} -> element.position = UNDEFINED
      [] element.type = "line" -> element.start = UNDEFINED \/ element.end = UNDEFINED
      [] element.type = "circle" -> element.center = UNDEFINED
      [] OTHER -> FALSE
BadElement(element) == element = UNDEFINED \/ UnknownType(element) \/ Throws(element)

\* the surface of the template of the call without its bad elements
SurfaceOfGoodElements ==
    LET canvasConfig == canvasConfigOf(IMAGE_DIMENSIONS, call.options)
    IN  renderFromTemplate(
            configureContext(canvasConfig, call.options), canvasConfig,
            [elements |-> SelectSeq(call.template.elements,
                                    LAMBDA element : ~BadElement(element))],
            call.variables).surface

\* C17: every element is attempted once, in order; each bad element gives
\* one logged error and is skipped, the later elements are drawn, and the
\* surface is that of the template without its bad elements.
C17_BadElementsSkipped ==
    Rendered =>
        /\ result.value.outcome = "returned"
        /\ result.value.attempted = [k \in 1..Len(call.template.elements) |-> k]
        /\ Len(result.value.errors)
             = Len(SelectSeq(call.template.elements, BadElement))
        /\ result.value.surface = SurfaceOfGoodElements

\* the same for templates whose bad elements are of an unknown type only
UnknownTypesSkipped ==
    (/\ Rendered
     /\ \A k \in 1..Len(call.template.elements) :
           LET element == call.template.elements[k]
           IN  element # UNDEFINED /\ ~Throws(element)
     /\ result.value.outcome # "hangs")
    => C17_BadElementsSkipped

\* a line without end point leaves its line width to the outline that follows
C17_LineWidthLeaks ==
    /\ Rendered
    /\ Len(call.template.elements) = 2
    /\ call.template.elements[1] = Palette[4]
    /\ call.template.elements[2] = Palette[5]
    /\ Len(result.value.errors) = 1
    /\ Len(result.value.surface) = 1
    /\ result.value.surface[1].ink.lineWidth = Palette[4].width
    /\ SurfaceOfGoodElements[1].ink.lineWidth = 1

\* a null element ends the rendering of the template
C17_NullElementAborts ==
    /\ Rendered
    /\ Len(call.template.elements) = 2
    /\ call.template.elements[1] = UNDEFINED
    /\ result.value.outcome = "threw"
    /\ result.value.attempted = <<1>>

(***************************************************************************)
(* The height of the image in the print flow                               *)
(***************************************************************************)

\* the packed bytes of one column of the bitmap renderTemplate produced
RenderedHeight == Len(imageData) \div TotalWidth

(* C25: the height used to split and frame the image equals the packed     *)
(* bytes per column of the bitmap the renderer produced: the data handed   *)
(* to sendImageData has width * height bytes, the splits hold every byte   *)
(* of it, and every split is framed with that height, also when the        *)
(* template overrides dimensions.height                                    *)
C25_HeightOfRenderedBitmap ==
    Sending =>
        /\ Len(imageData) = TotalWidth * effectiveDimensions(template).height
        /\ \A idx \in 1..Len(imageSplits) :
              /\ imageSplits[idx].dimensions.height = RenderedHeight
              /\ LET prefix == splitProtocol(imageSplits[idx]).prefix
                 IN  prefix[12] * BYTE + prefix[13] = RenderedHeight
        /\ ConcatData(imageSplits) = imageData

\* a template 25 bytes high is split with the height of IMAGE_DIMENSIONS
C25_OverrideSplitWithBaseHeight ==
    /\ Sending
    /\ template.height = MaxHeight
    /\ RenderedHeight = MaxHeight
    /\ imageSplits[1].dimensions.height = BASE_HEIGHT
    /\ Len(ConcatData(imageSplits)) < Len(imageData)

------------------------------------------------------------------------------
(* C21 *)

Abs(n) == IF n < 0 THEN -n ELSE n

\* pixels is the integer nearest to value * dpi / 96 on the base canvas
Nearest(pixels, value) ==
    2 * Abs(STANDARD_DPI * pixels - value * BASE_DPI) <= STANDARD_DPI

\* a template of one element that its draw routine can draw was rendered
ShapeRendered ==
    /\ Rendered
    /\ Len(call.template.elements) = 1
    /\ ~BadElement(call.template.elements[1])
    /\ result.value.outcome = "returned"

NearestAll(args, values) ==
    /\ Len(args) = Len(values)
    /\ \A k \in 1..Len(args) : Nearest(args[k], values[k])

(* C21: every coordinate and size of an element (positions, endpoints,     *)
(* widths, heights, radius, bounds, spacing, cell sizes, font size) is     *)
(* drawn at the integer nearest to its value times dpi/96, and the stroke  *)
(* width of a line and of a grid is scaled by the same factor              *)
C21_GeometryAndStrokesScaled ==
    ShapeRendered =>
        LET element == call.template.elements[1]
            ops == result.value.surface
        IN  CASE element.type = "text" ->
                   /\ NearestAll(ops[1].args, <<element.position.x, element.position.y>>)
                   /\ element.fontSize # 0
                        => Nearest(ops[1].ink.font.size, element.fontSize)
              [] element.type = "line" ->
                   /\ NearestAll(ops[1].args, <<element.start.x, element.start.y,
                                                element.end.x, element.end.y>>)
                   /\ element.width # 0 => Nearest(ops[1].ink.lineWidth, element.width)
              [] element.type = "rectangle" ->
                   NearestAll(ops[1].args, <<element.position.x, element.position.y,
                                             element.width, element.height>>)
              [] element.type = "circle" ->
                   NearestAll(ops[1].args, <<element.center.x, element.center.y,
                                             element.radius>>)
              [] element.type = "stripes" ->
                   /\ (ops # <<>> /\ element.bounds # UNDEFINED) =>
                         /\ Nearest(ops[1].args[1], element.bounds.x)
                         /\ Nearest(ops[1].args[2], element.bounds.y)
                   /\ Len(ops) >= 2 =>
                         Nearest(ops[2].args[1] - ops[1].args[1]
                                     + ops[2].args[2] - ops[1].args[2],
                                 element.spacing)
              [] element.type = "grid" ->
                   /\ \A k \in 1..Len(ops) :
                         element.lineWidth # 0
                             => Nearest(ops[k].ink.lineWidth, element.lineWidth)
                   /\ (ops # <<>> /\ element.bounds # UNDEFINED) =>
                         NearestAll(ops[1].args,
                                    <<element.bounds.x, element.bounds.y,
                                      element.bounds.x,
                                      element.bounds.y + element.bounds.height>>)
                   /\ (Len(ops) >= 2 /\ ops[2].args[1] # ops[1].args[1]) =>
                         Nearest(ops[2].args[1] - ops[1].args[1], element.cellWidth)
              [] OTHER -> TRUE

\* the claim without the stroke widths: coordinates and sizes are scaled
C21_GeometryScaled ==
    (ShapeRendered /\ call.template.elements[1].type \notin {"line", "grid"})
        => C21_GeometryAndStrokesScaled

\* a line 3 wide is stroked 3 pixels wide at 203 dpi
C21_LineWidthUnscaled ==
    /\ ShapeRendered
    /\ call.template.elements[1].type = "line"
    /\ call.template.elements[1].width = 3
    /\ result.value.surface[1].ink.lineWidth = 3
    /\ ~Nearest(3, 3)

------------------------------------------------------------------------------
(* C30 *)

\* a template of one stripes element was rendered; its geometry in pixels
StripesRendered == ShapeRendered /\ call.template.elements[1].type = "stripes"
StripesConfig == canvasConfigOf(IMAGE_DIMENSIONS, call.options)
StripesBounds == scaledBounds(call.template.elements[1], StripesConfig)
StripesSpacing == scaled(call.template.elements[1].spacing, StripesConfig)
StripesWidth == scaled(call.template.elements[1].width, StripesConfig)
Horizontal == call.template.elements[1].direction = "horizontal"

\* the bounds along the axis of the stripes, and the bar drawn by ops[k]
BoundsStart == IF Horizontal THEN StripesBounds.y ELSE StripesBounds.x
BoundsEnd ==
    IF Horizontal THEN StripesBounds.y + StripesBounds.height
    ELSE StripesBounds.x + StripesBounds.width
BarStart(bar) == IF Horizontal THEN bar.args[2] ELSE bar.args[1]
BarThickness(bar) == IF Horizontal THEN bar.args[4] ELSE bar.args[3]
BarAcross(bar) ==
    IF Horizontal THEN <<bar.args[1], bar.args[3]>> ELSE <<bar.args[2], bar.args[4]>>
BoundsAcross ==
    IF Horizontal THEN <<StripesBounds.x, StripesBounds.width>>
    ELSE <<StripesBounds.y, StripesBounds.height>>

\* the k >= 0 whose start lies inside the bounds
BarIndexes == {k \in 0..(BoundsEnd - BoundsStart) : BoundsStart + k * StripesSpacing < BoundsEnd}

(* C30: with a scaled spacing >= 1 the bars of a stripes element start at  *)
(* boundsStart + k*spacing for every k >= 0 whose start is inside the      *)
(* bounds, each bar is min(width, boundsEnd - start) thick, so none goes   *)
(* beyond the edge and a bar is thinner than width only where it would     *)
(* cross the edge, and across the other axis every bar spans the bounds    *)
C30_StripesGeometry ==
    (StripesRendered /\ StripesSpacing >= 1) =>
        LET bars == result.value.surface
        IN  /\ Len(bars) = Cardinality(BarIndexes)
            /\ \A k \in BarIndexes :
                  LET bar == bars[k + 1]
                      start == BoundsStart + k * StripesSpacing
                  IN  /\ bar.op = "fillRect"
                      /\ BarStart(bar) = start
                      /\ BarThickness(bar) = Min(StripesWidth, BoundsEnd - start)
                      /\ start + BarThickness(bar) <= BoundsEnd
                      /\ BarThickness(bar) < StripesWidth
                            => start + StripesWidth > BoundsEnd
                      /\ BarAcross(bar) = BoundsAcross

\* horizontal stripes in given bounds whose last bar is cut at the edge
C30_Witness ==
    /\ StripesRendered
    /\ StripesSpacing >= 1
    /\ Horizontal
    /\ call.template.elements[1].bounds # UNDEFINED
    /\ Len(result.value.surface) >= 2
    /\ BarThickness(result.value.surface[Len(result.value.surface)]) < StripesWidth
    /\ BarThickness(result.value.surface[1]) = StripesWidth

\* vertical stripes over the whole canvas
C30_WitnessVertical ==
    /\ StripesRendered
    /\ StripesSpacing >= 1
    /\ ~Horizontal
    /\ call.template.elements[1].bounds = UNDEFINED
    /\ Len(result.value.surface) >= 2

------------------------------------------------------------------------------
(* C28 *)

(* C28: rendering ends for every template with non-negative geometry: a    *)
(* stripes element whose scaled spacing is 0 or a grid element whose       *)
(* scaled cell width or height is 0 is drawn or skipped in finitely many   *)
(* steps, and the elements after it are attempted                          *)
C28_RenderingTerminates ==
    (/\ Rendered
     /\ \A k \in 1..Len(call.template.elements) :
           call.template.elements[k] # UNDEFINED)
    => /\ result.value.outcome = "returned"
       /\ result.value.attempted = [k \in 1..Len(call.template.elements) |-> k]

\* stripes with spacing 0 over the canvas: the loop of the stripes does not
\* end and the rectangle after them is never attempted
C28_ZeroSpacingHangs ==
    /\ Rendered
    /\ Len(call.template.elements) = 2
    /\ call.template.elements[1] # UNDEFINED
    /\ call.template.elements[1].type = "stripes"
    /\ call.template.elements[1].spacing = 0
    /\ call.template.elements[1].bounds = UNDEFINED
    /\ result.value.outcome = "hangs"
    /\ result.value.attempted = <<1>>

\* a grid with cell width 0: the loop of the vertical lines does not end
C28_ZeroCellHangs ==
    /\ Rendered
    /\ Len(call.template.elements) = 2
    /\ call.template.elements[1] # UNDEFINED
    /\ call.template.elements[1].type = "grid"
    /\ call.template.elements[1].cellWidth = 0
    /\ call.template.elements[1].cellHeight > 0
    /\ result.value.outcome = "hangs"
    /\ result.value.attempted = <<1>>

------------------------------------------------------------------------------
(* C23 *)

Split == call.fn = "calculateImageSplits" /\ result.done

------------------------------------------------------------------------------
(* C22 *)

\* the source resolves to an object with a non-empty string as its name and
\* an array as its elements
Conforming(src) ==
    /\ src.read = "ok"
    /\ src.value.type = "object"
    /\ src.value.name = "string"
    /\ src.value.elements = "array"

\* no callback is registered, nothing is rendered and nothing is written
\* for a source that does not conform, and its run ends by the logged error
\* of executeWithTemplate with exit code 1
Rejects ==
    ~Conforming(source) =>
        /\ ~registered
        /\ pc = "notStarted"
        /\ imageData = <<>>
        /\ \A k \in 1..Len(trace) : trace[k].ev \notin {"render", "write"}
        /\ ~Running =>
              /\ exit = [code |-> 1, by |-> "load"]
              /\ errorLog # <<>>
              /\ errorLog[Len(errorLog)] \in {LOAD_ERROR, RENDER_ONLY_ERROR}

(* C22: a template source (by name, by file path or an object in memory)   *)
(* that does not resolve to an object with a non-empty string name and an  *)
(* array elements is rejected before the renderer runs and before any byte *)
(* is written; the error is logged and the run ends with a non-zero exit   *)
(* code                                                                    *)
C22_InvalidSourceRejected ==
    []Rejects /\ (~Conforming(source) ~> (exit.code = 1 /\ exit.by = "load"))

\* a print run on a template by name whose name property is the empty
\* string has been ended by the rejection, after the port had opened
C22_Witness ==
    /\ ~renderOnly
    /\ source.via = "name"
    /\ source.value.name = "empty"
    /\ port = "open"
    /\ exit = [code |-> 1, by |-> "load"]
    /\ trace = <<>>

\* a print run on an object in memory without elements has been ended
C22_WitnessObject ==
    /\ ~renderOnly
    /\ source.via = "object"
    /\ source.value.elements = "undefined"
    /\ exit = [code |-> 1, by |-> "load"]

\* the same for a file that does not hold JSON, in render-only mode
C22_WitnessFile ==
    /\ renderOnly
    /\ source.via = "file"
    /\ source.read = "SyntaxError"
    /\ exit = [code |-> 1, by |-> "load"]
    /\ imageData = <<>>

------------------------------------------------------------------------------
(* C26 *)

(* C26: in print mode handleConnection runs in every run in which the port *)
(* opens, whatever the order of the "open" event and the end of the        *)
(* template load: once the port is open and the callback is registered,    *)
(* the transmission sequence starts (or the run has ended)                 *)
C26_OpenEventNotLost ==
    (port = "open" /\ registered) ~> (pc # "notStarted" \/ ~Running)

\* the port opened before the template was loaded: the callback is
\* registered on an open port and handleConnection has not run
C26_OpenedBeforeRegistered ==
    /\ Running
    /\ port = "open"
    /\ registered
    /\ pc = "notStarted"
    /\ trace = <<>>

------------------------------------------------------------------------------
(* C29 *)

(* C29: every "data" event the port emits after the write of the firmware  *)
(* request was issued satisfies the wait for the firmware version, also    *)
(* one that arrives before the callback of the write has run: the run does *)
(* not stay waiting for a device that did answer                           *)
C29_ResponseNotDropped ==
    (lostData > 0) ~> (pc \notin {"awaitFwWrite", "awaitData"} \/ ~Running)

\* the device answered while the request was being written, and the run
\* waits for data
C29_WaitingAfterResponse ==
    /\ Running
    /\ pc = "awaitData"
    /\ lostData > 0

------------------------------------------------------------------------------
(* C27 *)

\* a step of the packet loop within one split: the next packet is written
LoopStep ==
    /\ pc \in {"awaitPacket", "delay"}
    /\ pc' = "awaitPacket"
    /\ splitIndex' = splitIndex
    /\ Len(trace') > Len(trace)
    /\ trace'[Len(trace')].ev = "write"

(* C27: the packetized send ends for every packetSize of the defaults or   *)
(* of --packet-size: a packetSize <= 0 does not reach the sending, the     *)
(* index of the packet loop grows with every packet, and the send of the   *)
(* image comes to its end (or the run is ended)                            *)
C27_SendTerminates ==
    /\ [](Sending => config.packetSize > 0)
    /\ [][LoopStep => i' > i]_vars
    /\ (pc = "awaitPacket") ~> (pc \in {"awaitPostfix", "exitDelay"} \/ ~Running)

\* with --packet-size 0 three empty packets have been written and the index
\* of the loop is still 0
C27_EmptyPacketsForever ==
    /\ Running
    /\ config.packetSize = 0
    /\ pc = "awaitPacket"
    /\ i = 0
    /\ Len(SelectSeq(trace, LAMBDA e : e.ev = "write" /\ e.kind = "packet"))
          = MaxStalledWrites
    /\ trace[Len(trace)].bytes = <<>>

\* with the default packet size the send of the image comes to its end
C27_DefaultSizeTerminates ==
    (config.packetSize > 0 /\ pc = "awaitPacket")
        ~> (pc \in {"awaitPostfix", "exitDelay"} \/ ~Running)

------------------------------------------------------------------------------
(* C24 *)

(* C24: debug artifacts are best-effort: a failure while the PNG or the    *)
(* JSON debug file is written is caught and logged and does not abort the  *)
(* rendering, and the packed bytes (hence the bytes sent to the port) are  *)
(* the same with debug mode on or off, with the writes succeeding or not   *)
C24_DebugArtifactsBestEffort ==
    Created =>
        LET canvasConfig == getCanvasConfig(effectiveDimensions(call.template))
            failed == call.debug.debugMode
                        /\ (call.debug.png # "ok" \/ call.debug.json # "ok")
        IN  /\ result.value.outcome = "returned"
            /\ result.value.imageData = packCanvas(blankCanvas(canvasConfig), canvasConfig)
            /\ result.value.imageData
                 = createImageFromJson(call.template, DEBUG_OFF).imageData
            /\ result.value.errors
                 = IF failed THEN <<DEBUG_IMAGE_ERROR>> ELSE <<>>
            /\ ~call.debug.debugMode => result.value.files = <<>>

\* in debug mode the write of the PNG failed, the error was logged and the
\* image was packed all the same
C24_Witness ==
    /\ Created
    /\ call.debug.debugMode
    /\ call.debug.png = "fails"
    /\ result.value.errors = <<DEBUG_IMAGE_ERROR>>
    /\ result.value.files = <<>>
    /\ Len(result.value.imageData) > 0

\* the PNG was written and the write of the JSON debug info failed
C24_WitnessJson ==
    /\ Created
    /\ call.debug.debugMode
    /\ call.debug.png = "ok"
    /\ call.debug.json = "fails"
    /\ result.value.files = <<"png">>
    /\ Len(result.value.imageData) = BASE_WIDTH * BASE_HEIGHT

====
